---- MODULE Spec2Model ----
(***************************************************************************)
(* Model of the MCP tool-server adapters of this repository.               *)
(*                                                                         *)
(* Three independent parts, each with its own specification:               *)
(*   SpecSearch   - ArxivService.search: the candidate loop, the           *)
(*                  concurrent download/extract tasks, the gather and the  *)
(*                  population of the result slots                         *)
(*                  (mcp-server-arxiv/.../arxiv_client/client.py).         *)
(*   SpecDispatch - call_tool of the adapters (server.py of each adapter). *)
(*   SpecRegistry - the singleton service factories                        *)
(*                  (get_arxiv_service, lru_cache factories).              *)
(*                                                                         *)
(* Python strings are modelled as sequences of tokens, so that             *)
(* startswith, slicing and concatenation are computed and not assumed.     *)
(***************************************************************************)
EXTENDS Integers, Sequences, FiniteSets, TLC

(***************************************************************************)
(* Bounds of the model.                                                    *)
(***************************************************************************)
\* largest max_results (override or configured default) explored
MaxN == 2
\* the text limit explored (max_text_length), in tokens
TextLimit == 1
\* Number of concurrent callers of a service factory.
NCallers == 2
\* Calls each caller makes to the factory.
MaxCalls == 2
\* Tasks one search spawns in the step-by-step model of the operations.
MaxItems == 2
\* Requests one server run serves.
MaxRequests == 2
\* Largest (and, negated, smallest) integer offered to a bounded field.
MaxValue == 52
\* Largest poll_max_options and poll_max_duration a TwitterClient is configured
\* with; polls of up to one option more and one minute more are offered.
MaxPollOptions == 4
MaxPollDuration == 7
\* Largest max_results given to or configured for a Tavily search.
MaxTavilyResults == 3
\* Number of concurrent store calls on one collection.
NStores == 3
\* Longest text and largest text limit of one extraction.
MaxTextLen == 4
MaxLimit == 3

(***************************************************************************)
(* Python values.                                                          *)
(***************************************************************************)
\* Optional[int] = None
NoneInt == -1
\* Optional[str] = None
NoneStr == << "<None>" >>

\* str.startswith("[")
StartsWithBracket(s) == Len(s) > 0 /\ s[1] = "["

\* s[:n]
Prefix(s, n) == SubSeq(s, 1, IF n < Len(s) THEN n ELSE Len(s))

\* "a" * n
Rep(n) == [i \in 1..n |-> "a"]

\* The texts a PDF may contain: empty, a short text, a text longer than the
\* limit, and a text that itself begins with "[".
Texts == { << >>, Rep(1), Rep(TextLimit + 1), << "[", "a" >> }

\* What can happen inside one download/extract operation.
Faults == {"none", "FileNotFoundError", "DownloadError", "FitzError",
           "Exception", "Escaped"}

OpEvents == {[fault |-> "none", text |-> t] : t \in Texts}
            \cup {[fault |-> f, text |-> << >>] : f \in Faults \ {"none"}}

VARIABLES
    \* ---- ArxivService.search ----
    pcS,                  \* position in search()
    query,                \* argument
    max_results_override, \* argument (NoneInt = None)
    max_text_length_override, \* argument (NoneInt = None)
    default_max_results,  \* config.default_max_results
    default_max_text_length, \* config.default_max_text_length
    processed_count,      \* local of search()
    tasks,                \* local: sequence of (task, paper_info)
    final_results_list,   \* local, the returned list
    raisedS,              \* exception search() raised ("" = none)
    fetched,              \* candidates the iterator has yielded so far
    iterRaised,           \* the iterator has raised at least once
    exhausted,            \* next() returned None
    completionOrder,      \* task indexes in order of completion
    \* ---- call_tool of the adapters ----
    adapter,              \* which server handles the call
    toolName,             \* argument name
    argsKind,             \* argument arguments: valid, invalid, not_a_mapping
    cfgChecked,           \* telegram: telegram_config is loaded
    pcD,                  \* Received, Validated, Executing, Succeeded, Failed
    traceD,               \* the phases the call went through
    backendCalls,         \* invocations of the backend service operation
    branchD,              \* the branch that produced the response
    outcomeD,             \* pending, returned, raised
    resultD,              \* the list of content blocks returned
    causeD                \* why the backend failed: none, input, upstream, internal

searchVars == << pcS, query, max_results_override, max_text_length_override,
                 default_max_results, default_max_text_length,
                 processed_count, tasks, final_results_list, raisedS,
                 fetched, iterRaised, exhausted, completionOrder >>

\* The service factories (get_*_service / get_*_connector / get_*_client).
VARIABLES factory, pcR, calls, cache, nConstructed, own, handed

regVars == << factory, pcR, calls, cache, nConstructed, own, handed >>

dispVars == << adapter, toolName, argsKind, cfgChecked, pcD, traceD,
               backendCalls, branchD, outcomeD, resultD, causeD >>

\* The scratch directory of a search, the per-item download/extract
\* operations step by step, and the result slots.
VARIABLES
    pcW,                  \* position of search() around the with block
    raisedW,              \* exception search() ended with ("" = none)
    temp_dir,             \* none, exists, removed
    ops,                  \* the download/extract operations, one per task
    slots,                \* the paper_info dicts, one per task
    returnedW             \* the list search() returned

itemVars == << pcW, raisedW, temp_dir, ops, slots, returnedW >>

\* A server from its start: the lifespan, list_tools, and calls of listed
\* tools with arguments named field by field.
VARIABLES
    srv,                  \* which server
    srvState,             \* starting, serving, aborted
    svcReady,             \* the service / configuration object exists
    startFailed,          \* construction or configuration loading failed
    listed,               \* the tools the last list_tools returned
    reqTool,              \* name of the last call_tool
    reqArgs,              \* the argument names it supplied
    verdict,              \* none, accepted, rejected, config_error
    nRequests,            \* requests served so far
    cfgAttempts,          \* telegram: calls of init_telegram_config
    cfgLoads,             \* telegram: configurations constructed
    executed              \* calls that went on to the tool's operation

serverVars == << srv, srvState, svcReady, startFailed, listed, reqTool,
                 reqArgs, verdict, nRequests, cfgAttempts, cfgLoads,
                 executed >>

\* State of one validation of a bounded integer field: the model being built,
\* the input given for the field, the verdict and the value the model holds.
VARIABLES
    vModel,         \* "ArxivSearchRequest" or "ArxivConfig"
    vInput,         \* [kind |-> "absent" | "null" | "int", n |-> integer]
    vVerdict,       \* "pending", "accepted" or "rejected"
    vValue          \* the field of the built model (NoneInt for None)

valVars == << vModel, vInput, vVerdict, vValue >>

\* State of one TwitterClient.create_tweet call.
VARIABLES
    pcT,                \* "idle", "entry", "poll", "post" or "done"
    poll_options,       \* length of the list (0: None or empty)
    poll_duration,      \* minutes, NoneInt for None
    image_content_str,  \* whether an image was given
    tweetConfig,        \* the client's config fields read by create_tweet
    media_ids,          \* number of uploaded media
    poll_params,        \* whether the poll parameters were filled
    faultT,             \* "none", or what failed: "upload", "api"
    postedT,            \* whether the API created the tweet
    resultT             \* [kind |-> "none" | "returned" | "raised", text]

tweetVars == << pcT, poll_options, poll_duration, image_content_str,
                tweetConfig, media_ids, poll_params, faultT, postedT,
                resultT >>

\* State of one _TavilyService.search call.
VARIABLES
    pcV,            \* "idle", "entry", "tool", "got" or "done"
    queryV,         \* the query, a sequence of tokens
    maxResultsV,    \* the max_results argument, NoneInt for None
    toolMax,        \* max_results the TavilySearch tool was created with
    rawV,           \* what tool.ainvoke returned
    faultV,         \* "none", or what failed: "tool", "api", "format"
    resultV         \* [kind |-> "none" | "returned" | "raised", title, n]

tavVars == << pcV, queryV, maxResultsV, toolMax, rawV, faultV, resultV >>

\* State of one send_msg_to_telegram call.
VARIABLES
    pcM,            \* "idle", "entry", "post", "answered" or "done"
    cfgToken,       \* whether config.token is non-empty
    cfgChannel,     \* whether config.channel is non-empty
    textLen,        \* len(text) as given
    payloadLen,     \* len(payload["text"])
    parseMode,      \* payload["parse_mode"]
    posts,          \* the requests issued: [parse_mode, status, desc]
    resultM         \* [kind |-> "none" | "returned" | "raised", value]

sendVars == << pcM, cfgToken, cfgChannel, textLen, payloadLen, parseMode,
               posts, resultM >>

\* State of concurrent QdrantConnector.store calls on one collection.
VARIABLES
    pcQ,            \* per store: "start", "create", "embed", "upsert",
                    \* "done", "failed" ("off" outside this part)
    collection,     \* whether the collection exists on the server
    createCalls,    \* number of create_collection invocations
    upserted        \* the stores whose upsert was done

storeVars == << pcQ, collection, createCalls, upserted >>

\* One extraction, as a function of the text of the PDF and the two limits.
VARIABLES
    exText,         \* the text parse_pdf returns
    exOverride,     \* max_text_length_override (NoneInt for None)
    exDefault,      \* config.default_max_text_length (NoneInt for None)
    exResult        \* "pending", or what _async_download_and_extract returns

extVars == << exText, exOverride, exDefault, exResult >>

vars == << searchVars, dispVars, regVars, itemVars, serverVars, valVars,
    tweetVars, tavVars, sendVars, storeVars, extVars >>

\* What each part of the model leaves alone.
notSearch == << dispVars, regVars, itemVars, serverVars, valVars,
    tweetVars, tavVars, sendVars, storeVars, extVars >>
notDispatch == << searchVars, regVars, itemVars, serverVars, valVars,
    tweetVars, tavVars, sendVars, storeVars, extVars >>
notRegistry == << searchVars, dispVars, itemVars, serverVars, valVars,
    tweetVars, tavVars, sendVars, storeVars, extVars >>
notItems == << searchVars, dispVars, regVars, serverVars, valVars,
    tweetVars, tavVars, sendVars, storeVars, extVars >>
notServer == << searchVars, dispVars, regVars, itemVars, valVars,
    tweetVars, tavVars, sendVars, storeVars, extVars >>
notValidation == << searchVars, dispVars, regVars, itemVars, serverVars,
    tweetVars, tavVars, sendVars, storeVars, extVars >>
notTweet == << searchVars, dispVars, regVars, itemVars, serverVars,
    valVars, tavVars, sendVars, storeVars, extVars >>
notTavily == << searchVars, dispVars, regVars, itemVars, serverVars,
    valVars, tweetVars, sendVars, storeVars, extVars >>
notSend == << searchVars, dispVars, regVars, itemVars, serverVars, valVars,
    tweetVars, tavVars, storeVars, extVars >>
notStore == << searchVars, dispVars, regVars, itemVars, serverVars,
    valVars, tweetVars, tavVars, sendVars, extVars >>
notExtract == << searchVars, dispVars, regVars, itemVars, serverVars,
    valVars, tweetVars, tavVars, sendVars, storeVars >>

(***************************************************************************)
(* ArxivService.search and its per-item operation.                         *)
(***************************************************************************)

\* effective_max_results
EffectiveMaxResults ==
    IF max_results_override # NoneInt THEN max_results_override
    ELSE default_max_results

EffectiveLimitPrefersConfigured(override, configured) ==
    IF configured # NoneInt THEN configured ELSE override
\* override if override is not None else the configured default
EffectiveLimit(override, configured) ==
    IF override # NoneInt THEN override ELSE configured

\* effective_max_text_length
EffectiveMaxTextLength ==
    EffectiveLimit(max_text_length_override, default_max_text_length)

\* The value the coroutine _async_download_and_extract ends with: a returned
\* string (kind "str") or an exception that leaves it (kind "exc").
DownloadAndExtract(ev, max_text_length) ==
    CASE ev.fault = "none" ->
           [kind |-> "str",
            val  |-> IF ev.text = << >>
                     THEN << "[", "Could not extract text content from PDF" >>
                     ELSE IF max_text_length # NoneInt
                             /\ Len(ev.text) > max_text_length
                     THEN Prefix(ev.text, max_text_length)
                          \o << "... (truncated)" >>
                     ELSE ev.text]
      [] ev.fault = "FileNotFoundError" ->
           [kind |-> "str",
            val  |-> << "[", "Download failed or file not found" >>]
      [] ev.fault = "DownloadError" ->
           [kind |-> "str", val |-> << "[", "Failed to download PDF" >>]
      [] ev.fault = "FitzError" ->
           [kind |-> "str", val |-> << "[", "Failed to parse PDF" >>]
      [] ev.fault = "Exception" ->
           [kind |-> "str",
            val  |-> << "[", "Unexpected error processing PDF" >>]
      [] OTHER ->
           [kind |-> "exc", val |-> << "escaped exception" >>]

\* paper_info as built in the loop, before its task has run
NewPaperInfo(cand) ==
    [link |-> cand, full_text |-> << "Fetching..." >>, error |-> NoneStr]

\* The loop condition of the candidate loop.
LoopGuardWide(count, limit) == count < 2 * limit
LoopGuard(count, limit) == count < limit

\* asyncio.gather(*tasks, return_exceptions=True): the results, in the order
\* of the awaitables passed, whatever order they completed in.
GatherInCompletionOrder(ts, order) ==
    [i \in 1..Len(ts) |-> ts[order[i]].res]
GatherResults(ts, order) ==
    [i \in 1..Len(ts) |-> ts[i].res]

\* return_exceptions=True: an exception of a task never leaves gather.
GatherRaisesOnTaskException(results) ==
    \E i \in 1..Len(results) : results[i].kind = "exc"
GatherRaises(results) == FALSE

\* Filling one paper_info from its task's result.
PopulateTextOnly(info, res) ==
    IF res.kind = "exc"
    THEN [info EXCEPT !.full_text = << "[", "Error processing PDF" >> \o res.val]
    ELSE [info EXCEPT !.full_text = res.val]
Populate(info, res) ==
    IF res.kind = "exc"
    THEN [info EXCEPT !.full_text = << "[", "Error processing PDF" >> \o res.val,
                      !.error = res.val]
    ELSE [info EXCEPT !.full_text = res.val,
                      !.error = IF StartsWithBracket(res.val)
                                THEN res.val ELSE NoneStr]

\* What the loop does when next(results_iterator, None) gives None.
OnExhaustedContinue == "loop"
OnExhaustedRaise == "raised"
OnExhausted == "gather"

\* No tool call in progress.
DispIdle ==
    /\ adapter = "none"
    /\ toolName = "none"
    /\ argsKind = "valid"
    /\ cfgChecked = TRUE
    /\ pcD = "idle"
    /\ traceD = << >>
    /\ backendCalls = 0
    /\ branchD = "none"
    /\ outcomeD = "pending"
    /\ resultD = << >>
    /\ causeD = "none"

\* No search in progress.
SearchIdle ==
    /\ pcS = "idle"
    /\ query = << >>
    /\ max_results_override = NoneInt
    /\ max_text_length_override = NoneInt
    /\ default_max_results = 1
    /\ default_max_text_length = NoneInt
    /\ processed_count = 0
    /\ tasks = << >>
    /\ final_results_list = << >>
    /\ raisedS = ""
    /\ fetched = 0
    /\ iterRaised = FALSE
    /\ exhausted = FALSE
    /\ completionOrder = << >>

\* No factory call in progress.
RegIdle ==
    /\ factory = "none"
    /\ pcR = [c \in 1..NCallers |-> "off"]
    /\ calls = [c \in 1..NCallers |-> 0]
    /\ cache = 0
    /\ nConstructed = 0
    /\ own = [c \in 1..NCallers |-> 0]
    /\ handed = {}

\* No search with a scratch directory in progress.
ItemsIdle ==
    /\ pcW = "idle"
    /\ raisedW = ""
    /\ temp_dir = "none"
    /\ ops = << >>
    /\ slots = << >>
    /\ returnedW = << >>

\* No server being started.
ServerIdle ==
    /\ srv = "none"
    /\ srvState = "idle"
    /\ svcReady = FALSE
    /\ startFailed = FALSE
    /\ listed = << >>
    /\ reqTool = "none"
    /\ reqArgs = {}
    /\ verdict = "none"
    /\ nRequests = 0
    /\ cfgAttempts = 0
    /\ cfgLoads = 0
    /\ executed = 0

\* No model being built.
ValIdle ==
    /\ vModel = "none"
    /\ vInput = [kind |-> "absent", n |-> 0]
    /\ vVerdict = "pending"
    /\ vValue = NoneInt

\* No create_tweet call in progress.
TweetIdle ==
    /\ pcT = "idle"
    /\ poll_options = 0
    /\ poll_duration = NoneInt
    /\ image_content_str = FALSE
    /\ tweetConfig = [poll_max_options |-> 2, poll_max_duration |-> 5,
                      media_upload_enabled |-> FALSE]
    /\ media_ids = 0
    /\ poll_params = FALSE
    /\ faultT = "none"
    /\ postedT = FALSE
    /\ resultT = [kind |-> "none", text |-> ""]

\* No Tavily search in progress.
TavIdle ==
    /\ pcV = "idle"
    /\ queryV = << >>
    /\ maxResultsV = NoneInt
    /\ toolMax = 0
    /\ rawV = [kind |-> "none", n |-> 0]
    /\ faultV = "none"
    /\ resultV = [kind |-> "none", title |-> "", n |-> 0]

\* No message being sent.
SendIdle ==
    /\ pcM = "idle"
    /\ cfgToken = FALSE
    /\ cfgChannel = FALSE
    /\ textLen = 0
    /\ payloadLen = 0
    /\ parseMode = "HTML"
    /\ posts = << >>
    /\ resultM = [kind |-> "none", value |-> "none"]

\* No store in progress.
StoreIdle ==
    /\ pcQ = [c \in 1..NStores |-> "off"]
    /\ collection = FALSE
    /\ createCalls = 0
    /\ upserted = {}

\* No single extraction under study.
ExtIdle ==
    /\ exText = << >>
    /\ exOverride = NoneInt
    /\ exDefault = NoneInt
    /\ exResult = << "idle" >>

InitSearch ==
    /\ RegIdle
    /\ ItemsIdle
    /\ ServerIdle
    /\ ValIdle
    /\ TweetIdle
    /\ DispIdle
    /\ TavIdle
    /\ SendIdle
    /\ StoreIdle
    /\ ExtIdle
    /\ pcS = "entry"
    /\ query \in {<< >>, << "q" >>}
    \* every default without an override, every override against the
    \* largest default
    /\ \/ /\ max_results_override = NoneInt
          /\ default_max_results \in 1..MaxN
       \/ /\ max_results_override \in 1..MaxN
          /\ default_max_results = MaxN
    /\ max_text_length_override \in {NoneInt, TextLimit}
    /\ default_max_text_length = NoneInt
    /\ processed_count = 0
    /\ tasks = << >>
    /\ final_results_list = << >>
    /\ raisedS = ""
    /\ fetched = 0
    /\ iterRaised = FALSE
    /\ exhausted = FALSE
    /\ completionOrder = << >>

SearchEmptyQueryAfterFetch ==
    /\ pcS = "entry"
    /\ query = << >>
    /\ pcS' = "raised"
    /\ raisedS' = "ValueError"
    /\ fetched' = 1
    /\ UNCHANGED << query, max_results_override, max_text_length_override,
                    default_max_results, default_max_text_length,
                    processed_count, tasks, final_results_list,
                    iterRaised, exhausted, completionOrder >>
    /\ UNCHANGED notSearch
\* if not query: raise ValueError
SearchEmptyQuery ==
    /\ pcS = "entry"
    /\ query = << >>
    /\ pcS' = "raised"
    /\ raisedS' = "ValueError"
    /\ UNCHANGED << query, max_results_override, max_text_length_override,
                    default_max_results, default_max_text_length,
                    processed_count, tasks, final_results_list,
                    fetched, iterRaised, exhausted, completionOrder >>
    /\ UNCHANGED notSearch

\* Building the Search object, the result iterator or the scratch directory
\* fails: the outer handler turns it into ArxivApiError.
SearchSetupFails ==
    /\ pcS = "entry"
    /\ query # << >>
    /\ pcS' = "raised"
    /\ raisedS' = "ArxivApiError"
    /\ UNCHANGED << query, max_results_override, max_text_length_override,
                    default_max_results, default_max_text_length,
                    processed_count, tasks, final_results_list,
                    fetched, iterRaised, exhausted, completionOrder >>
    /\ UNCHANGED notSearch

SearchSetupOk ==
    /\ pcS = "entry"
    /\ query # << >>
    /\ pcS' = "loop"
    /\ UNCHANGED << query, max_results_override, max_text_length_override,
                    default_max_results, default_max_text_length,
                    processed_count, tasks, final_results_list, raisedS,
                    fetched, iterRaised, exhausted, completionOrder >>
    /\ UNCHANGED notSearch

\* next(results_iterator, None) returns None: break
NextExhausted ==
    /\ pcS = "loop"
    /\ LoopGuard(processed_count, EffectiveMaxResults)
    /\ exhausted' = TRUE
    /\ pcS' = OnExhausted
    /\ raisedS' = IF OnExhausted = "raised" THEN "ArxivApiError" ELSE raisedS
    /\ UNCHANGED << query, max_results_override, max_text_length_override,
                    default_max_results, default_max_text_length,
                    processed_count, tasks, final_results_list,
                    fetched, iterRaised, completionOrder >>
    /\ UNCHANGED notSearch

\* next(results_iterator, None) raises: logged, continue.  The iterator is
\* a generator: one that has raised is finished and gives None from then on.
NextRaises ==
    /\ pcS = "loop"
    /\ LoopGuard(processed_count, EffectiveMaxResults)
    /\ ~iterRaised
    /\ iterRaised' = TRUE
    /\ UNCHANGED << pcS, query, max_results_override, max_text_length_override,
                    default_max_results, default_max_text_length,
                    processed_count, tasks, final_results_list, raisedS,
                    fetched, exhausted, completionOrder >>
    /\ UNCHANGED notSearch

\* A paper was obtained but building its paper_info (or its task) raises:
\* the same handler logs and continues, the paper is not recorded anywhere.
NextPaperPrepFails ==
    /\ pcS = "loop"
    /\ LoopGuard(processed_count, EffectiveMaxResults)
    /\ ~iterRaised
    /\ fetched < 2 * EffectiveMaxResults
    /\ fetched' = fetched + 1
    /\ UNCHANGED << pcS, query, max_results_override, max_text_length_override,
                    default_max_results, default_max_text_length,
                    processed_count, tasks, final_results_list, raisedS,
                    iterRaised, exhausted, completionOrder >>
    /\ UNCHANGED notSearch

\* A paper was obtained: paper_info is built, its task is created and
\* appended, processed_count += 1.
NextPaperSpawn ==
    /\ pcS = "loop"
    /\ LoopGuard(processed_count, EffectiveMaxResults)
    /\ ~iterRaised
    /\ fetched < 2 * EffectiveMaxResults
    /\ fetched' = fetched + 1
    /\ tasks' = Append(tasks, [cand |-> fetched + 1,
                               done |-> FALSE,
                               fault |-> "none",
                               res  |-> [kind |-> "str", val |-> << >>],
                               info |-> NewPaperInfo(fetched + 1)])
    /\ processed_count' = processed_count + 1
    /\ UNCHANGED << pcS, query, max_results_override, max_text_length_override,
                    default_max_results, default_max_text_length,
                    final_results_list, raisedS,
                    iterRaised, exhausted, completionOrder >>
    /\ UNCHANGED notSearch

\* The loop condition is false: leave the loop.
LoopDone ==
    /\ pcS = "loop"
    /\ ~LoopGuard(processed_count, EffectiveMaxResults)
    /\ pcS' = "gather"
    /\ UNCHANGED << query, max_results_override, max_text_length_override,
                    default_max_results, default_max_text_length,
                    processed_count, tasks, final_results_list, raisedS,
                    fetched, iterRaised, exhausted, completionOrder >>
    /\ UNCHANGED notSearch

\* One download/extract task runs to its end (tasks run while search() is
\* suspended in the loop or in gather).
TaskFinish(i) ==
    /\ pcS \in {"loop", "gather"}
    /\ i \in 1..Len(tasks)
    /\ ~tasks[i].done
    /\ \E ev \in OpEvents :
         tasks' = [tasks EXCEPT
                     ![i].done = TRUE,
                     ![i].fault = ev.fault,
                     ![i].res = DownloadAndExtract(ev, EffectiveMaxTextLength)]
    /\ completionOrder' = Append(completionOrder, i)
    /\ UNCHANGED << pcS, query, max_results_override, max_text_length_override,
                    default_max_results, default_max_text_length,
                    processed_count, final_results_list, raisedS,
                    fetched, iterRaised, exhausted >>
    /\ UNCHANGED notSearch

\* gather has all results: populate every paper_info, append it, leave the
\* scratch directory and return (no gather at all when there are no tasks).
GatherReturn ==
    /\ pcS = "gather"
    /\ \A i \in 1..Len(tasks) : tasks[i].done
    /\ LET results == GatherResults(tasks, completionOrder) IN
         IF GatherRaises(results)
         THEN /\ pcS' = "raised"
              /\ raisedS' = "ArxivApiError"
              /\ UNCHANGED final_results_list
         ELSE /\ pcS' = "returned"
              /\ final_results_list' =
                   [i \in 1..Len(tasks) |-> Populate(tasks[i].info, results[i])]
              /\ UNCHANGED raisedS
    /\ UNCHANGED << query, max_results_override, max_text_length_override,
                    default_max_results, default_max_text_length,
                    processed_count, tasks,
                    fetched, iterRaised, exhausted, completionOrder >>
    /\ UNCHANGED notSearch

NextSearch ==
    \/ SearchEmptyQuery
    \/ SearchSetupFails
    \/ SearchSetupOk
    \/ NextExhausted
    \/ NextRaises
    \/ NextPaperPrepFails
    \/ NextPaperSpawn
    \/ LoopDone
    \/ \E i \in 1..Len(tasks) : TaskFinish(i)
    \/ GatherReturn

SpecSearch == InitSearch /\ [][NextSearch]_vars

\* The searches called without overrides: the configured defaults decide.
InitSearchDefaults ==
    /\ InitSearch
    /\ max_results_override = NoneInt
    /\ max_text_length_override = NoneInt

\* The event loop keeps running the coroutine of search() and the tasks it
\* spawned: a step that stays possible is eventually taken.
SpecSearchFair ==
    InitSearchDefaults /\ [][NextSearch]_vars /\ WF_vars(NextSearch)

(***************************************************************************)
(* call_tool of the adapters.                                              *)
(***************************************************************************)
Adapters == {"arxiv", "tavily", "twitter", "qdrant", "telegram", "youtube",
             "calculator"}

\* The tool names each server dispatches on.
ArxivToolNames == {"arxiv_search"}
TavilyToolNames == {"tavily_web_search"}
TwitterToolNames == {"create_tweet", "get_user_tweets", "follow_user",
                     "retweet_tweet"}
QdrantToolNames == {"qdrant-store", "qdrant-find"}
TelegramToolNames == {"post_to_telegram"}
YouTubeToolNames == {"youtube_search_and_transcript"}
CalculatorToolNames == {"calculate"}

ToolsOf(a) ==
    CASE a = "arxiv"      -> ArxivToolNames
      [] a = "tavily"     -> TavilyToolNames
      [] a = "twitter"    -> TwitterToolNames
      [] a = "qdrant"     -> QdrantToolNames
      [] a = "telegram"   -> TelegramToolNames
      [] a = "youtube"    -> YouTubeToolNames
      [] OTHER            -> CalculatorToolNames

UnknownName == "does_not_exist"

\* The exception classes call_tool distinguishes, and Python's subclass
\* relation between them (pydantic's ValidationError is a ValueError; the
\* adapters' API errors derive from their service/client base error).
IsA(exc, cls) ==
    \/ exc = cls
    \/ cls = "Exception"
    \/ exc = "ValidationError" /\ cls = "ValueError"
    \/ exc = "ApiError" /\ cls = "ServiceError"

\* The except clauses of each call_tool, in source order: the class caught,
\* the text produced, and whether the text embeds str(exception).
ArxivHandlers ==
    << [cls |-> "ValidationError", tag |-> "Invalid arguments", detail |-> TRUE],
       [cls |-> "ValueError", tag |-> "Input validation failed", detail |-> TRUE],
       [cls |-> "ApiError", tag |-> "ArXiv API issue", detail |-> TRUE],
       [cls |-> "ServiceError", tag |-> "ArXiv service problem", detail |-> TRUE],
       [cls |-> "Exception", tag |-> "unexpected internal error", detail |-> FALSE] >>

TavilyHandlers ==
    << [cls |-> "ValidationError", tag |-> "Invalid arguments", detail |-> TRUE],
       [cls |-> "ValueError", tag |-> "Input validation error", detail |-> TRUE],
       [cls |-> "ServiceError", tag |-> "Tavily client error", detail |-> TRUE],
       [cls |-> "Exception", tag |-> "unexpected internal error", detail |-> FALSE] >>

TwitterHandlers ==
    << [cls |-> "ValidationError", tag |-> "Validation error", detail |-> TRUE],
       [cls |-> "Exception", tag |-> "Server error", detail |-> TRUE] >>

QdrantHandlers ==
    << [cls |-> "ValidationError", tag |-> "Invalid arguments", detail |-> TRUE],
       [cls |-> "Exception", tag |-> "An error occurred", detail |-> TRUE] >>

TelegramHandlers ==
    << [cls |-> "ValueError", tag |-> "Invalid arguments", detail |-> TRUE],
       [cls |-> "ServiceError", tag |-> "Telegram client error", detail |-> TRUE],
       [cls |-> "Exception", tag |-> "unexpected internal error", detail |-> FALSE] >>

YouTubeHandlers ==
    << [cls |-> "ValidationError", tag |-> "Invalid arguments", detail |-> TRUE],
       [cls |-> "ServiceError", tag |-> "YouTube client error", detail |-> TRUE],
       [cls |-> "Exception", tag |-> "Unexpected error", detail |-> TRUE] >>

CalculatorHandlers ==
    << [cls |-> "ValidationError", tag |-> "Invalid arguments", detail |-> TRUE],
       [cls |-> "ServiceError", tag |-> "A calculator error occurred", detail |-> TRUE],
       [cls |-> "Exception", tag |-> "unexpected error", detail |-> FALSE] >>

Handlers(a) ==
    CASE a = "arxiv"    -> ArxivHandlers
      [] a = "tavily"   -> TavilyHandlers
      [] a = "twitter"  -> TwitterHandlers
      [] a = "qdrant"   -> QdrantHandlers
      [] a = "telegram" -> TelegramHandlers
      [] a = "youtube"  -> YouTubeHandlers
      [] OTHER          -> CalculatorHandlers

\* The first except clause of the adapter that catches exc.
HandlerFor(a, exc) ==
    LET hs == Handlers(a)
        k  == CHOOSE i \in 1..Len(hs) :
                /\ IsA(exc, hs[i].cls)
                /\ \A j \in 1..(i - 1) : ~IsA(exc, hs[j].cls)
    IN  hs[k]

\* The text of the response a handler builds for exc.
HandlerText(a, exc) ==
    LET h == HandlerFor(a, exc)
    IN  IF h.detail THEN << h.tag, exc >> ELSE << h.tag >>

\* What the backend operation of a tool can do once invoked: return a value
\* ("ok", "ok_empty", "false", "error_string") or raise an exception class.
\* ArxivService.search returns a list (possibly empty) or raises ValueError /
\* ArxivApiError.
ArxivFates == {"ok", "ok_empty", "ValueError", "ApiError"}
\* _TavilyService.search raises ValueError on an empty query and turns every
\* other failure into a "Search Error" result.
TavilyFates == {"ok", "error_result", "ValueError"}
\* TwitterClient methods catch every exception and return str(e).
TwitterFates == {"ok", "error_string"}
\* QdrantConnector.store / search raise QdrantAPIError; search may return [].
QdrantFates(tool) ==
    IF tool = "qdrant-find" THEN {"ok", "ok_empty", "ApiError"}
                            ELSE {"ok", "ApiError"}
\* send_msg_to_telegram returns True or False.
TelegramFates == {"ok", "false"}
\* YouTubeSearcher.search_videos: a result, YouTubeClientError, or another
\* exception.
YouTubeFates == {"ok", "ServiceError", "Exception"}
\* CalculatorClient.calculate: a result, CalculatorError, or another exception.
CalculatorFates == {"ok", "ServiceError", "Exception"}

BackendFates(a, tool) ==
    CASE a = "arxiv"    -> ArxivFates
      [] a = "tavily"   -> TavilyFates
      [] a = "twitter"  -> TwitterFates
      [] a = "qdrant"   -> QdrantFates(tool)
      [] a = "telegram" -> TelegramFates
      [] a = "youtube"  -> YouTubeFates
      [] OTHER          -> CalculatorFates

\* Why a backend operation did not deliver: the arguments ("input"), the
\* backing service ("upstream"), or a fault of the program itself
\* ("internal"); "none" when it delivered.
Causes == {"none", "input", "upstream", "internal"}

\* ArxivService.search: ValueError for an empty query; every other exception
\* inside it, whatever its origin, is re-raised as ArxivApiError.
ArxivOutcomes(c) ==
    CASE c = "none" -> {"ok", "ok_empty"}
      [] c = "input" -> {"ValueError"}
      [] OTHER -> {"ApiError"}
\* _TavilyService.search: ValueError for an empty query; every other
\* exception, whatever its origin, becomes a "Search Error" result.
TavilyOutcomes(c) ==
    CASE c = "none" -> {"ok"}
      [] c = "input" -> {"ValueError"}
      [] OTHER -> {"error_result"}
\* TwitterClient: every exception, whatever its origin, becomes str(e).
TwitterOutcomes(c) ==
    IF c = "none" THEN {"ok"} ELSE {"error_string"}
\* QdrantConnector: every exception, whatever its origin, is re-raised as
\* QdrantAPIError.
QdrantOutcomes(c) ==
    IF c = "none" THEN {"ok", "ok_empty"}
    ELSE IF c = "input" THEN {} ELSE {"ApiError"}
\* send_msg_to_telegram: every exception of the request, whatever its
\* origin, becomes False.
TelegramOutcomes(c) ==
    IF c = "none" THEN {"ok"}
    ELSE IF c = "input" THEN {} ELSE {"false"}
\* YouTubeSearcher / CalculatorClient as their call_tool expects them: the
\* client's own error class for what the service signals, anything else
\* for a fault of the program.
ClientOutcomes(c) ==
    CASE c = "none" -> {"ok"}
      [] c = "upstream" -> {"ServiceError"}
      [] c = "internal" -> {"Exception"}
      [] OTHER -> {}

OutcomesOf(a, tool, c) ==
    CASE a = "arxiv"    -> ArxivOutcomes(c)
      [] a = "tavily"   -> TavilyOutcomes(c)
      [] a = "twitter"  -> TwitterOutcomes(c)
      [] a = "qdrant"   -> QdrantOutcomes(c)
      [] a = "telegram" -> TelegramOutcomes(c)
      [] OTHER          -> ClientOutcomes(c)

ReturnedValues == {"ok", "ok_empty", "false", "error_string", "error_result"}

\* What call_tool does with a value the backend returned: the text of the
\* success response, or the exception formatting it raises.
\* (twitter: get_user_tweets returns str(e) on failure and call_tool reads
\* response.data of it.)
AfterReturn(a, tool, value) ==
    IF a = "twitter" /\ tool = "get_user_tweets" /\ value = "error_string"
    THEN [raises |-> TRUE, exc |-> "AttributeError", text |-> << >>]
    ELSE [raises |-> FALSE, exc |-> "",
          text |-> CASE value = "ok_empty" -> << "No results" >>
                     [] value = "false" -> << "Failed to post message" >>
                     [] value = "error_string" -> << "Success text", "str(e)" >>
                     [] value = "error_result" -> << "Success text", "Search Error" >>
                     [] OTHER -> << "Success text" >>]

\* Whether the adapter passes type="text" when it builds a TextContent.
PassesType(a) == a # "twitter"

\* TextContent(...): mcp.types.TextContent declares type: Literal["text"]
\* without a default, so a construction that omits it raises pydantic's
\* ValidationError; with it, the block is built.
MkTextContent(a, text) ==
    IF PassesType(a)
    THEN [ok |-> TRUE, block |-> [type |-> "text", text |-> text]]
    ELSE [ok |-> FALSE, block |-> [type |-> "none", text |-> << >>]]

\* The end of call_tool on one of its branches: the content list returned,
\* or the exception that leaves call_tool when the response cannot be built
\* (inside the try the ValidationError handler runs and fails the same way).
Finish(a, text) ==
    LET tc == MkTextContent(a, text)
    IN  IF tc.ok
        THEN [outcome |-> "returned", result |-> << tc.block >>]
        ELSE [outcome |-> "raised", result |-> << >>]

\* Model construction Request(**arguments): the exception it raises
\* ("" = none).
Validate(kind) ==
    CASE kind = "valid" -> ""
      [] kind = "invalid" -> "ValidationError"
      [] OTHER -> "TypeError"

InitDispatch ==
    /\ SearchIdle
    /\ RegIdle
    /\ ItemsIdle
    /\ ServerIdle
    /\ ValIdle
    /\ TweetIdle
    /\ TavIdle
    /\ SendIdle
    /\ StoreIdle
    /\ ExtIdle
    /\ adapter \in Adapters
    /\ toolName \in ToolsOf(adapter) \cup {UnknownName}
    /\ argsKind \in {"valid", "invalid", "not_a_mapping"}
    /\ cfgChecked = (adapter # "telegram")
    /\ pcD = "Received"
    /\ traceD = << "Received" >>
    /\ backendCalls = 0
    /\ branchD = "none"
    /\ outcomeD = "pending"
    /\ resultD = << >>
    /\ causeD = "none"

\* telegram only: telegram_config is None and init_telegram_config() runs.
TelegramConfigLoads ==
    /\ adapter = "telegram"
    /\ pcD = "Received"
    /\ ~cfgChecked
    /\ cfgChecked' = TRUE
    /\ UNCHANGED << causeD, adapter, toolName, argsKind, pcD, traceD, backendCalls,
                    branchD, outcomeD, resultD >>
    /\ UNCHANGED notDispatch

TelegramConfigFails ==
    /\ adapter = "telegram"
    /\ pcD = "Received"
    /\ ~cfgChecked
    /\ pcD' = "Failed"
    /\ traceD' = Append(traceD, "Failed")
    /\ branchD' = "ConfigError"
    /\ LET f == Finish(adapter, << "Server Configuration Error" >>)
       IN  outcomeD' = f.outcome /\ resultD' = f.result
    /\ UNCHANGED << causeD, adapter, toolName, argsKind, cfgChecked, backendCalls >>
    /\ UNCHANGED notDispatch

\* The name matches no tool of the server.
UnknownTool ==
    /\ pcD = "Received"
    /\ cfgChecked
    /\ toolName \notin ToolsOf(adapter)
    /\ pcD' = "Failed"
    /\ traceD' = Append(traceD, "Failed")
    /\ branchD' = "UnknownTool"
    /\ LET f == Finish(adapter, << "Unknown", "tool", toolName >>)
       IN  outcomeD' = f.outcome /\ resultD' = f.result
    /\ UNCHANGED << causeD, adapter, toolName, argsKind, cfgChecked, backendCalls >>
    /\ UNCHANGED notDispatch

\* Request(**arguments) succeeds.
ValidateOk ==
    /\ pcD = "Received"
    /\ cfgChecked
    /\ toolName \in ToolsOf(adapter)
    /\ Validate(argsKind) = ""
    /\ pcD' = "Validated"
    /\ traceD' = Append(traceD, "Validated")
    /\ UNCHANGED << causeD, adapter, toolName, argsKind, cfgChecked, backendCalls,
                    branchD, outcomeD, resultD >>
    /\ UNCHANGED notDispatch

\* Request(**arguments) raises: the matching except clause answers.
ValidateFails ==
    /\ pcD = "Received"
    /\ cfgChecked
    /\ toolName \in ToolsOf(adapter)
    /\ Validate(argsKind) # ""
    /\ pcD' = "Failed"
    /\ traceD' = Append(traceD, "Failed")
    /\ branchD' = HandlerFor(adapter, Validate(argsKind)).cls
    /\ LET f == Finish(adapter, HandlerText(adapter, Validate(argsKind)))
       IN  outcomeD' = f.outcome /\ resultD' = f.result
    /\ UNCHANGED << causeD, adapter, toolName, argsKind, cfgChecked, backendCalls >>
    /\ UNCHANGED notDispatch

\* The backend operation is called with the validated arguments.
Invoke ==
    /\ pcD = "Validated"
    /\ pcD' = "Executing"
    /\ traceD' = Append(traceD, "Executing")
    /\ backendCalls' = backendCalls + 1
    /\ UNCHANGED << causeD, adapter, toolName, argsKind, cfgChecked,
                    branchD, outcomeD, resultD >>
    /\ UNCHANGED notDispatch

\* The backend returns a value and call_tool formats it.
BackendReturns ==
    /\ pcD = "Executing"
    /\ \E c \in Causes :
       \E v \in BackendFates(adapter, toolName) \cap ReturnedValues
                \cap OutcomesOf(adapter, toolName, c) :
         LET r == AfterReturn(adapter, toolName, v) IN
           /\ causeD' = c
           /\ IF r.raises
              THEN /\ pcD' = "Failed"
                   /\ traceD' = Append(traceD, "Failed")
                   /\ branchD' = HandlerFor(adapter, r.exc).cls
                   /\ LET f == Finish(adapter, HandlerText(adapter, r.exc))
                      IN  outcomeD' = f.outcome /\ resultD' = f.result
              ELSE /\ pcD' = "Succeeded"
                   /\ traceD' = Append(traceD, "Succeeded")
                   /\ branchD' = "Success"
                   /\ LET f == Finish(adapter, r.text)
                      IN  outcomeD' = f.outcome /\ resultD' = f.result
    /\ UNCHANGED << adapter, toolName, argsKind, cfgChecked, backendCalls >>
    /\ UNCHANGED notDispatch

\* The backend raises and the matching except clause answers.
BackendRaises ==
    /\ pcD = "Executing"
    /\ \E c \in Causes :
       \E e \in (BackendFates(adapter, toolName) \ ReturnedValues)
                \cap OutcomesOf(adapter, toolName, c) :
         /\ causeD' = c
         /\ pcD' = "Failed"
         /\ traceD' = Append(traceD, "Failed")
         /\ branchD' = HandlerFor(adapter, e).cls
         /\ LET f == Finish(adapter, HandlerText(adapter, e))
            IN  outcomeD' = f.outcome /\ resultD' = f.result
    /\ UNCHANGED << adapter, toolName, argsKind, cfgChecked, backendCalls >>
    /\ UNCHANGED notDispatch

NextDispatch ==
    \/ TelegramConfigLoads
    \/ TelegramConfigFails
    \/ UnknownTool
    \/ ValidateOk
    \/ ValidateFails
    \/ Invoke
    \/ BackendReturns
    \/ BackendRaises

SpecDispatch == InitDispatch /\ [][NextDispatch]_vars

(***************************************************************************)
(* The service factories.  get_arxiv_service is a coroutine that tests and *)
(* sets a module global without awaiting in between, so one call is one    *)
(* step of the event loop.  get_qdrant_connector, get_tavily_service and   *)
(* get_twitter_client are plain functions under functools.lru_cache and    *)
(* are called from threads: the wrapper looks the key up, calls the        *)
(* function on a miss without holding a lock, and afterwards stores the    *)
(* result unless another caller stored one meanwhile; either way the       *)
(* caller gets the object its own call built.                              *)
(***************************************************************************)
Callers == 1..NCallers

Factories == {"get_arxiv_service", "get_qdrant_connector",
              "get_tavily_service", "get_twitter_client"}

\* Whether a call of the factory runs without interleaving.
RunsAtomically(f) == f = "get_arxiv_service"

InitRegistry ==
    /\ SearchIdle
    /\ DispIdle
    /\ ItemsIdle
    /\ ServerIdle
    /\ ValIdle
    /\ TweetIdle
    /\ TavIdle
    /\ SendIdle
    /\ StoreIdle
    /\ ExtIdle
    /\ factory \in Factories
    /\ pcR = [c \in Callers |-> "idle"]
    /\ calls = [c \in Callers |-> 1]
    /\ cache = 0
    /\ nConstructed = 0
    /\ own = [c \in Callers |-> 0]
    /\ handed = {}

\* get_arxiv_service(): the whole body.
ArxivFactoryCall(c) ==
    /\ RunsAtomically(factory)
    /\ pcR[c] = "idle"
    /\ IF cache # 0
       THEN /\ handed' = handed \cup {cache}
            /\ pcR' = [pcR EXCEPT ![c] = "done"]
            /\ UNCHANGED << cache, nConstructed, own >>
       ELSE \/ /\ nConstructed' = nConstructed + 1
               /\ cache' = nConstructed + 1
               /\ own' = [own EXCEPT ![c] = nConstructed + 1]
               /\ handed' = handed \cup {nConstructed + 1}
               /\ pcR' = [pcR EXCEPT ![c] = "done"]
            \/ /\ pcR' = [pcR EXCEPT ![c] = "failed"]
               /\ UNCHANGED << cache, nConstructed, own, handed >>
    /\ UNCHANGED << factory, calls >>
    /\ UNCHANGED notRegistry

\* lru_cache wrapper: the cache lookup.
CacheLookup(c) ==
    /\ ~RunsAtomically(factory)
    /\ pcR[c] = "idle"
    /\ IF cache # 0
       THEN /\ handed' = handed \cup {cache}
            /\ pcR' = [pcR EXCEPT ![c] = "done"]
       ELSE /\ pcR' = [pcR EXCEPT ![c] = "missed"]
            /\ UNCHANGED handed
    /\ UNCHANGED << factory, calls, cache, nConstructed, own >>
    /\ UNCHANGED notRegistry

\* The wrapped function runs and builds a service.
Construct(c) ==
    /\ pcR[c] = "missed"
    /\ nConstructed' = nConstructed + 1
    /\ own' = [own EXCEPT ![c] = nConstructed + 1]
    /\ pcR' = [pcR EXCEPT ![c] = "built"]
    /\ UNCHANGED << factory, calls, cache, handed >>
    /\ UNCHANGED notRegistry

ConstructFailsFillsSlot(c) ==
    /\ pcR[c] = "missed"
    /\ pcR' = [pcR EXCEPT ![c] = "failed"]
    /\ nConstructed' = nConstructed + 1
    /\ cache' = nConstructed + 1
    /\ UNCHANGED << factory, calls, own, handed >>
    /\ UNCHANGED notRegistry
\* The wrapped function raises (configuration error): nothing is cached.
ConstructFails(c) ==
    /\ pcR[c] = "missed"
    /\ pcR' = [pcR EXCEPT ![c] = "failed"]
    /\ UNCHANGED << factory, calls, cache, nConstructed, own, handed >>
    /\ UNCHANGED notRegistry

\* lru_cache wrapper after the call: store unless present, return own result.
StoreAndReturn(c) ==
    /\ pcR[c] = "built"
    /\ cache' = IF cache = 0 THEN own[c] ELSE cache
    /\ handed' = handed \cup {own[c]}
    /\ pcR' = [pcR EXCEPT ![c] = "done"]
    /\ UNCHANGED << factory, calls, nConstructed, own >>
    /\ UNCHANGED notRegistry

\* The caller calls the factory again.
CallAgain(c) ==
    /\ pcR[c] \in {"done", "failed"}
    /\ calls[c] < MaxCalls
    /\ calls' = [calls EXCEPT ![c] = calls[c] + 1]
    /\ pcR' = [pcR EXCEPT ![c] = "idle"]
    /\ UNCHANGED << factory, cache, nConstructed, own, handed >>
    /\ UNCHANGED notRegistry

NextRegistry ==
    \E c \in Callers :
        \/ ArxivFactoryCall(c)
        \/ CacheLookup(c)
        \/ Construct(c)
        \/ ConstructFails(c)
        \/ StoreAndReturn(c)
        \/ CallAgain(c)

SpecRegistry == InitRegistry /\ [][NextRegistry]_vars

(***************************************************************************)
(* The scratch directory and the operations step by step.                  *)
(* search() creates one TemporaryDirectory, spawns a task per paper inside *)
(* the with block, gathers them, fills the paper_info dicts and leaves the *)
(* with block.  Each task downloads into the directory, parses the file    *)
(* and removes it in its finally block.  search() can be cancelled by its  *)
(* caller wherever it awaits.  The removal of a file or of the directory   *)
(* tree is taken to succeed.                                               *)
(***************************************************************************)
\* finally: if temp_pdf_path and os.path.exists(temp_pdf_path): os.remove(...)
\* runs whether the operation returned a text or handled a failure.
FileAfterOperationOnSuccessOnly(file, failed) == file /\ failed
FileAfterOperation(file, failed) == FALSE

\* Leaving "with tempfile.TemporaryDirectory() as temp_dir", normally or by
\* an exception.
LeaveWith == "removed"

\* A task of search(), before it has run.
NewOp == [pc |-> "created", file |-> FALSE, hung |-> FALSE,
          res |-> [kind |-> "str", val |-> << >>]]

\* What a download that fails can end with.
DownloadFaults == {"FileNotFoundError", "DownloadError", "Exception", "Escaped"}
\* What the parse of a downloaded file can end with.
ParseEvents == {ev \in OpEvents : ev.fault \in {"none", "FitzError", "Exception"}}

\* Whether the result of an operation is a failure of that item.
ResultFailed(res) == res.kind = "exc" \/ StartsWithBracket(res.val)

\* asyncio cancels a task: CancelledError is raised at its await.
Cancelled == [kind |-> "exc", val |-> << "CancelledError" >>]

InitItems ==
    /\ SearchIdle
    /\ DispIdle
    /\ RegIdle
    /\ ServerIdle
    /\ ValIdle
    /\ TweetIdle
    /\ TavIdle
    /\ SendIdle
    /\ StoreIdle
    /\ ExtIdle
    /\ pcW = "start"
    /\ raisedW = ""
    /\ temp_dir = "none"
    /\ ops = << >>
    /\ slots = << >>
    /\ returnedW = << >>

\* The Search object or the result iterator cannot be built.
WithSetupFails ==
    /\ pcW = "start"
    /\ pcW' = "raised"
    /\ raisedW' = "ArxivApiError"
    /\ UNCHANGED << temp_dir, ops, slots, returnedW >>
    /\ UNCHANGED notItems

\* with tempfile.TemporaryDirectory() as temp_dir:
EnterWith ==
    /\ pcW = "start"
    /\ pcW' = "loop"
    /\ temp_dir' = "exists"
    /\ UNCHANGED << raisedW, ops, slots, returnedW >>
    /\ UNCHANGED notItems

\* One iteration of the loop: paper_info built, its task created.
SpawnOp ==
    /\ pcW = "loop"
    /\ Len(ops) < MaxItems
    /\ ops' = Append(ops, NewOp)
    /\ slots' = Append(slots, [info |-> NewPaperInfo(Len(ops) + 1),
                               writes |-> 0])
    /\ UNCHANGED << pcW, raisedW, temp_dir, returnedW >>
    /\ UNCHANGED notItems

\* The loop ends (count reached or iterator exhausted).
LeaveLoop ==
    /\ pcW = "loop"
    /\ pcW' = "gather"
    /\ UNCHANGED << raisedW, temp_dir, ops, slots, returnedW >>
    /\ UNCHANGED notItems

\* A task starts: the path is computed and the download is handed to the
\* executor; the download may be one that never completes.
OpStart(i) ==
    /\ pcW \in {"loop", "gather", "raised"}
    /\ ops[i].pc = "created"
    /\ \E h \in BOOLEAN :
         ops' = [ops EXCEPT ![i].pc = "downloading", ![i].hung = h]
    /\ UNCHANGED << pcW, raisedW, temp_dir, slots, returnedW >>
    /\ UNCHANGED notItems

\* The download completes: the file is in the scratch directory.
OpDownloadOk(i) ==
    /\ pcW \in {"loop", "gather", "raised"}
    /\ ops[i].pc = "downloading"
    /\ ~ops[i].hung
    /\ temp_dir = "exists"
    /\ ops' = [ops EXCEPT ![i].pc = "parsing", ![i].file = TRUE]
    /\ UNCHANGED << pcW, raisedW, temp_dir, slots, returnedW >>
    /\ UNCHANGED notItems

\* The download fails, possibly leaving a partial file: an except clause
\* produces the result, then the finally block runs.
OpDownloadFails(i) ==
    /\ pcW \in {"loop", "gather", "raised"}
    /\ ops[i].pc = "downloading"
    /\ ~ops[i].hung
    /\ \E f \in DownloadFaults, partial \in BOOLEAN :
         /\ partial => temp_dir = "exists"
         /\ ops' = [ops EXCEPT
                      ![i].pc = "done",
                      ![i].file = FileAfterOperation(partial, TRUE),
                      ![i].res = DownloadAndExtract(
                                   [fault |-> f, text |-> << >>], NoneInt)]
    /\ UNCHANGED << pcW, raisedW, temp_dir, slots, returnedW >>
    /\ UNCHANGED notItems

\* The parse ends with a text or a failure, then the finally block runs.
OpParse(i) ==
    /\ pcW \in {"loop", "gather", "raised"}
    /\ ops[i].pc = "parsing"
    /\ \E ev \in ParseEvents :
         LET r == DownloadAndExtract(ev, NoneInt) IN
           ops' = [ops EXCEPT
                     ![i].pc = "done",
                     ![i].file = FileAfterOperation(ops[i].file,
                                                    ResultFailed(r)),
                     ![i].res = r]
    /\ UNCHANGED << pcW, raisedW, temp_dir, slots, returnedW >>
    /\ UNCHANGED notItems

\* await asyncio.gather(...) has every result.
GatherDone ==
    /\ pcW = "gather"
    /\ \A i \in 1..Len(ops) : ops[i].pc = "done"
    /\ pcW' = "populate"
    /\ UNCHANGED << raisedW, temp_dir, ops, slots, returnedW >>
    /\ UNCHANGED notItems

\* One iteration of the populate loop: the dict is filled and appended.
PopulateSlot ==
    /\ pcW = "populate"
    /\ Len(returnedW) < Len(ops)
    /\ LET k == Len(returnedW) + 1
           filled == Populate(slots[k].info,
                              GatherResults(ops, << >>)[k])
       IN  /\ slots' = [slots EXCEPT ![k].info = filled,
                                     ![k].writes = slots[k].writes + 1]
           /\ returnedW' = Append(returnedW, filled)
    /\ UNCHANGED << pcW, raisedW, temp_dir, ops >>
    /\ UNCHANGED notItems

\* The with block is left and final_results_list is returned.
ReturnList ==
    /\ pcW = "populate"
    /\ Len(returnedW) = Len(ops)
    /\ pcW' = "returned"
    /\ temp_dir' = LeaveWith
    /\ UNCHANGED << raisedW, ops, slots, returnedW >>
    /\ UNCHANGED notItems

\* The caller cancels search() while it awaits in the loop: CancelledError
\* leaves the with block (the directory tree is removed) and search(); the
\* tasks already created are not awaited by anything and go on.
AbandonInLoop ==
    /\ pcW = "loop"
    /\ pcW' = "raised"
    /\ raisedW' = "CancelledError"
    /\ temp_dir' = LeaveWith
    /\ ops' = [i \in 1..Len(ops) |-> [ops[i] EXCEPT !.file = FALSE]]
    /\ UNCHANGED << slots, returnedW >>
    /\ UNCHANGED notItems

AbandonInGatherReturnsPartial ==
    /\ pcW = "gather"
    /\ \E i \in 1..Len(ops) : ops[i].pc # "done"
    /\ pcW' = "returned"
    /\ temp_dir' = LeaveWith
    /\ returnedW' = [i \in 1..Len(slots) |-> slots[i].info]
    /\ UNCHANGED << raisedW, ops, slots >>
    /\ UNCHANGED notItems
\* The caller cancels search() while it awaits gather: gather cancels the
\* tasks still running (each ends by CancelledError through its finally
\* block), CancelledError leaves the with block and search().
AbandonInGather ==
    /\ pcW = "gather"
    /\ \E i \in 1..Len(ops) : ops[i].pc # "done"
    /\ pcW' = "raised"
    /\ raisedW' = "CancelledError"
    /\ temp_dir' = LeaveWith
    /\ ops' = [i \in 1..Len(ops) |->
                 IF ops[i].pc = "done" THEN ops[i]
                 ELSE [ops[i] EXCEPT !.pc = "done", !.file = FALSE,
                                     !.res = Cancelled]]
    /\ UNCHANGED << slots, returnedW >>
    /\ UNCHANGED notItems

\* The steps that need nothing from the caller.
ItemsProgress ==
    \/ WithSetupFails
    \/ EnterWith
    \/ SpawnOp
    \/ LeaveLoop
    \/ \E i \in 1..Len(ops) : OpStart(i)
    \/ \E i \in 1..Len(ops) : OpDownloadOk(i)
    \/ \E i \in 1..Len(ops) : OpDownloadFails(i)
    \/ \E i \in 1..Len(ops) : OpParse(i)
    \/ GatherDone
    \/ PopulateSlot
    \/ ReturnList

NextItems ==
    \/ ItemsProgress
    \/ AbandonInLoop
    \/ AbandonInGather

SpecItems == InitItems /\ [][NextItems]_vars

\* The event loop and the executor keep running whatever can run; the
\* caller is not obliged to cancel.
SpecItemsFair == SpecItems /\ WF_vars(ItemsProgress)

(***************************************************************************)
(* A server from its start.  Six servers build their service in            *)
(* server_lifespan and re-raise when that fails; the telegram server has   *)
(* no lifespan and loads its configuration on the first list_tools or      *)
(* call_tool, again on each request until it has loaded.  Arguments are    *)
(* the set of field names supplied; a request model accepts them when all  *)
(* of its required fields are there (further fields are ignored).          *)
(***************************************************************************)
\* The fields without a default of each request model.
RequiredFields(model) ==
    CASE model = "ArxivSearchRequest"  -> {"query"}
      [] model = "TavilySearchRequest" -> {"query"}
      [] model = "CreateTweetRequest"  -> {"text"}
      [] model = "RetweetTweetRequest" -> {"tweet_id"}
      [] model = "GetTweetsRequest"    -> {"user_id"}
      [] model = "FollowUserRequest"   -> {"user_id"}
      [] model = "QdrantStoreRequest"  -> {"information", "collection_name"}
      [] model = "QdrantFindRequest"   -> {"query", "collection_name"}
      [] model = "TelegramPostRequest" -> {"message"}
      [] model = "YouTubeSearchRequest" -> {"query"}
      [] OTHER -> {"operation", "operand1", "operand2"}

\* list_tools of each server: name and the model whose model_json_schema()
\* is given as inputSchema.
ArxivTools == << [name |-> "arxiv_search", schema |-> "ArxivSearchRequest"] >>
TavilyTools == << [name |-> "tavily_web_search", schema |-> "TavilySearchRequest"] >>
TwitterTools ==
    << [name |-> "create_tweet", schema |-> "CreateTweetRequest"],
       [name |-> "get_user_tweets", schema |-> "GetTweetsRequest"],
       [name |-> "follow_user", schema |-> "FollowUserRequest"],
       [name |-> "retweet_tweet", schema |-> "FollowUserRequest"] >>
QdrantTools ==
    << [name |-> "qdrant-find", schema |-> "QdrantFindRequest"],
       [name |-> "qdrant-store", schema |-> "QdrantStoreRequest"] >>
TelegramTools == << [name |-> "post_to_telegram", schema |-> "TelegramPostRequest"] >>
YouTubeTools ==
    << [name |-> "youtube_search_and_transcript", schema |-> "YouTubeSearchRequest"] >>
CalculatorTools == << [name |-> "calculate", schema |-> "CalculatorRequest"] >>

ListedTools(a) ==
    CASE a = "arxiv"    -> ArxivTools
      [] a = "tavily"   -> TavilyTools
      [] a = "twitter"  -> TwitterTools
      [] a = "qdrant"   -> QdrantTools
      [] a = "telegram" -> TelegramTools
      [] a = "youtube"  -> YouTubeTools
      [] OTHER          -> CalculatorTools

\* The model call_tool builds from the arguments of each tool.
RequestModelOf(tool) ==
    CASE tool = "arxiv_search"      -> "ArxivSearchRequest"
      [] tool = "tavily_web_search" -> "TavilySearchRequest"
      [] tool = "create_tweet"      -> "CreateTweetRequest"
      [] tool = "get_user_tweets"   -> "GetTweetsRequest"
      [] tool = "follow_user"       -> "FollowUserRequest"
      [] tool = "retweet_tweet"     -> "RetweetTweetRequest"
      [] tool = "qdrant-store"      -> "QdrantStoreRequest"
      [] tool = "qdrant-find"       -> "QdrantFindRequest"
      [] tool = "post_to_telegram"  -> "TelegramPostRequest"
      [] tool = "youtube_search_and_transcript" -> "YouTubeSearchRequest"
      [] OTHER -> "CalculatorRequest"

\* Model(**arguments) succeeds.
Accepts(model, args) == RequiredFields(model) \subseteq args

\* What a server does when its service cannot be built or its configuration
\* cannot be loaded: the lifespan re-raises ("abort"), or the server keeps
\* serving without it ("degraded").
StartupDiscipline(a) == IF a = "telegram" THEN "degraded" ELSE "abort"

\* Whether the server has a lifespan that builds the service.
HasLifespan(a) == a # "telegram"

InitServer ==
    /\ SearchIdle
    /\ DispIdle
    /\ RegIdle
    /\ ItemsIdle
    /\ ValIdle
    /\ TweetIdle
    /\ TavIdle
    /\ SendIdle
    /\ StoreIdle
    /\ ExtIdle
    /\ srv \in Adapters
    /\ srvState = "starting"
    /\ svcReady = FALSE
    /\ startFailed = FALSE
    /\ listed = << >>
    /\ reqTool = "none"
    /\ reqArgs = {}
    /\ verdict = "none"
    /\ nRequests = 0
    /\ cfgAttempts = 0
    /\ cfgLoads = 0
    /\ executed = 0

\* server_lifespan: the factory returns, the context is yielded.
LifespanOk ==
    /\ srvState = "starting"
    /\ HasLifespan(srv)
    /\ srvState' = "serving"
    /\ svcReady' = TRUE
    /\ UNCHANGED << srv, startFailed, listed, reqTool, reqArgs, verdict,
                    nRequests, cfgAttempts, cfgLoads, executed >>
    /\ UNCHANGED notServer

\* server_lifespan: the factory raises, the except clause raises again.
LifespanFails ==
    /\ srvState = "starting"
    /\ HasLifespan(srv)
    /\ startFailed' = TRUE
    /\ srvState' = IF StartupDiscipline(srv) = "abort" THEN "aborted"
                   ELSE "serving"
    /\ UNCHANGED << srv, svcReady, listed, reqTool, reqArgs, verdict,
                    nRequests, cfgAttempts, cfgLoads, executed >>
    /\ UNCHANGED notServer

\* Server("telegram-mcp-server"): nothing is built at start.
StartWithoutLifespan ==
    /\ srvState = "starting"
    /\ ~HasLifespan(srv)
    /\ srvState' = "serving"
    /\ UNCHANGED << srv, svcReady, startFailed, listed, reqTool, reqArgs,
                    verdict, nRequests, cfgAttempts, cfgLoads, executed >>
    /\ UNCHANGED notServer

LoadsOnEveryRequest(a, ready) == a = "telegram"
\* if telegram_config is None: init_telegram_config() is called only then.
MustLoad(a, ready) == a = "telegram" /\ ~ready

\* list_tools (telegram: with the configuration loaded, or loading now).
ListTools ==
    /\ srvState = "serving"
    /\ nRequests < MaxRequests
    /\ nRequests' = nRequests + 1
    /\ svcReady' = TRUE
    /\ IF MustLoad(srv, svcReady)
       THEN /\ cfgAttempts' = cfgAttempts + 1
            /\ cfgLoads' = cfgLoads + 1
       ELSE UNCHANGED << cfgAttempts, cfgLoads >>
    /\ listed' = ListedTools(srv)
    /\ UNCHANGED << srv, srvState, startFailed, reqTool, reqArgs, verdict,
                    executed >>
    /\ UNCHANGED notServer

\* telegram list_tools: init_telegram_config() returns False, return [].
ListToolsConfigFails ==
    /\ srvState = "serving"
    /\ nRequests < MaxRequests
    /\ MustLoad(srv, svcReady)
    /\ nRequests' = nRequests + 1
    /\ cfgAttempts' = cfgAttempts + 1
    /\ startFailed' = TRUE
    /\ svcReady' = FALSE
    /\ listed' = << >>
    /\ UNCHANGED << srv, srvState, reqTool, reqArgs, verdict, cfgLoads,
                    executed >>
    /\ UNCHANGED notServer

\* call_tool of a tool of the server: the request model of the tool is
\* built from the arguments (telegram: after the configuration check) and,
\* when it is accepted, the tool's operation is invoked.
CallTool ==
    /\ srvState = "serving"
    /\ nRequests < MaxRequests
    /\ \E k \in 1..Len(ListedTools(srv)) :
         LET tool == ListedTools(srv)[k].name IN
         \E args \in SUBSET (RequiredFields(ListedTools(srv)[k].schema)
                             \cup RequiredFields(RequestModelOf(tool))) :
           /\ reqTool' = tool
           /\ reqArgs' = args
           /\ verdict' = IF Accepts(RequestModelOf(tool), args)
                         THEN "accepted" ELSE "rejected"
           /\ executed' = IF Accepts(RequestModelOf(tool), args)
                          THEN executed + 1 ELSE executed
    /\ svcReady' = TRUE
    /\ IF MustLoad(srv, svcReady)
       THEN /\ cfgAttempts' = cfgAttempts + 1
            /\ cfgLoads' = cfgLoads + 1
       ELSE UNCHANGED << cfgAttempts, cfgLoads >>
    /\ nRequests' = nRequests + 1
    /\ UNCHANGED << srv, srvState, startFailed, listed >>
    /\ UNCHANGED notServer

\* telegram call_tool: init_telegram_config() returns False.
CallToolConfigFails ==
    /\ srvState = "serving"
    /\ nRequests < MaxRequests
    /\ MustLoad(srv, svcReady)
    /\ \E k \in 1..Len(ListedTools(srv)) :
         /\ reqTool' = ListedTools(srv)[k].name
         /\ reqArgs' = RequiredFields(ListedTools(srv)[k].schema)
    /\ verdict' = "config_error"
    /\ startFailed' = TRUE
    /\ svcReady' = FALSE
    /\ cfgAttempts' = cfgAttempts + 1
    /\ nRequests' = nRequests + 1
    /\ UNCHANGED << srv, srvState, listed, cfgLoads, executed >>
    /\ UNCHANGED notServer

NextServer ==
    \/ LifespanOk
    \/ LifespanFails
    \/ StartWithoutLifespan
    \/ ListTools
    \/ ListToolsConfigFails
    \/ CallTool
    \/ CallToolConfigFails

SpecServer == InitServer /\ [][NextServer]_vars

(***************************************************************************)
(* Validation of the bounded field max_results, in the request model of    *)
(* arxiv_search and, as default_max_results, in the configuration.         *)
(***************************************************************************)
\* Field(ge=..., le=...) of ArxivSearchRequest.max_results.
RequestMaxResultsGe == 1
RequestMaxResultsLe == 50
\* Field(default=..., ge=..., le=...) of ArxivConfig.default_max_results.
ConfigDefaultMaxResults == 5
ConfigMaxResultsGe == 1
ConfigMaxResultsLe == 50

ValModels == {"ArxivSearchRequest", "ArxivConfig"}

\* What a caller (or the environment) can give for the field.
ValInputs ==
    {[kind |-> "absent", n |-> 0], [kind |-> "null", n |-> 0]}
      \cup {[kind |-> "int", n |-> k] : k \in (0 - MaxValue)..MaxValue}

WithinBoundsExclusive(n, ge, le) == n > ge /\ n < le
\* pydantic's ge / le constraints: both ends belong to the range.
WithinBounds(n, ge, le) == n >= ge /\ n <= le

\* Optional[int] in the request model, int in the configuration.
IsOptional(model) == model = "ArxivSearchRequest"

FieldGe(model) ==
    IF model = "ArxivSearchRequest" THEN RequestMaxResultsGe
    ELSE ConfigMaxResultsGe

FieldLe(model) ==
    IF model = "ArxivSearchRequest" THEN RequestMaxResultsLe
    ELSE ConfigMaxResultsLe

\* The default of the field, taken without validation when it is absent.
FieldDefault(model) ==
    IF model = "ArxivSearchRequest" THEN NoneInt ELSE ConfigDefaultMaxResults

\* Whether pydantic accepts the input for the field.
FieldValidates(model, input) ==
    CASE input.kind = "absent" -> TRUE
      [] input.kind = "null" -> IsOptional(model)
      [] OTHER -> WithinBounds(input.n, FieldGe(model), FieldLe(model))

\* The value the built model holds.
FieldValue(model, input) ==
    CASE input.kind = "absent" -> FieldDefault(model)
      [] input.kind = "null" -> NoneInt
      [] OTHER -> input.n

InitValidation ==
    /\ SearchIdle
    /\ DispIdle
    /\ RegIdle
    /\ ItemsIdle
    /\ ServerIdle
    /\ TweetIdle
    /\ TavIdle
    /\ SendIdle
    /\ StoreIdle
    /\ ExtIdle
    /\ vModel \in ValModels
    /\ vInput \in ValInputs
    /\ vVerdict = "pending"
    /\ vValue = NoneInt

\* ArxivSearchRequest(**arguments) in call_tool: a ValidationError is
\* answered with a text, no model is built.
BuildRequest ==
    /\ vModel = "ArxivSearchRequest"
    /\ vVerdict = "pending"
    /\ IF FieldValidates(vModel, vInput)
       THEN /\ vVerdict' = "accepted"
            /\ vValue' = FieldValue(vModel, vInput)
       ELSE /\ vVerdict' = "rejected"
            /\ vValue' = vValue
    /\ UNCHANGED << vModel, vInput >>
    /\ UNCHANGED notValidation

\* ArxivConfig(): a ValidationError becomes ArxivConfigError.
BuildConfig ==
    /\ vModel = "ArxivConfig"
    /\ vVerdict = "pending"
    /\ IF FieldValidates(vModel, vInput)
       THEN /\ vVerdict' = "accepted"
            /\ vValue' = FieldValue(vModel, vInput)
       ELSE /\ vVerdict' = "rejected"
            /\ vValue' = vValue
    /\ UNCHANGED << vModel, vInput >>
    /\ UNCHANGED notValidation

NextValidation ==
    \/ BuildRequest
    \/ BuildConfig

SpecValidation == InitValidation /\ [][NextValidation]_vars

(***************************************************************************)
(* TwitterClient.create_tweet: optional media upload, the poll checks, the *)
(* API call, all inside one try whose handler returns str(e).              *)
(***************************************************************************)
\* The least number of poll options and the least duration, as written in
\* the checks.
PollMinOptions == 2
PollMinDuration == 5

\* The configurations a client can have.
TweetConfigs ==
    [poll_max_options : PollMinOptions..MaxPollOptions,
     poll_max_duration : PollMinDuration..MaxPollDuration,
     media_upload_enabled : BOOLEAN]

\* len(poll_options) < 2 or len(poll_options) > self.config.poll_max_options
OptionsOutOfBounds(n, config) ==
    n < PollMinOptions \/ n > config.poll_max_options

\* not poll_duration or not 5 <= poll_duration <= poll_max_duration:
\* None and 0 are falsy.
DurationInvalid(d, config) ==
    \/ d = NoneInt
    \/ d = 0
    \/ ~(PollMinDuration <= d /\ d <= config.poll_max_duration)

\* except Exception as e: return str(e)
ExceptHandler(text) == [kind |-> "returned", text |-> text]

InitTweet ==
    /\ SearchIdle
    /\ DispIdle
    /\ RegIdle
    /\ ItemsIdle
    /\ ServerIdle
    /\ ValIdle
    /\ TavIdle
    /\ SendIdle
    /\ StoreIdle
    /\ ExtIdle
    /\ pcT = "entry"
    /\ poll_options \in 0..(MaxPollOptions + 1)
    /\ poll_duration \in {NoneInt} \cup 0..(MaxPollDuration + 1)
    /\ image_content_str \in BOOLEAN
    /\ tweetConfig \in TweetConfigs
    /\ media_ids = 0
    /\ poll_params = FALSE
    /\ faultT = "none"
    /\ postedT = FALSE
    /\ resultT = [kind |-> "none", text |-> ""]

\* if image_content_str and self.config.media_upload_enabled: false.
SkipUpload ==
    /\ pcT = "entry"
    /\ ~(image_content_str /\ tweetConfig.media_upload_enabled)
    /\ pcT' = "poll"
    /\ UNCHANGED << poll_options, poll_duration, image_content_str,
                    tweetConfig, media_ids, poll_params, faultT, postedT,
                    resultT >>
    /\ UNCHANGED notTweet

\* self._upload_media(...) returns; its media_id is appended.
UploadOk ==
    /\ pcT = "entry"
    /\ image_content_str /\ tweetConfig.media_upload_enabled
    /\ media_ids' = media_ids + 1
    /\ pcT' = "poll"
    /\ UNCHANGED << poll_options, poll_duration, image_content_str,
                    tweetConfig, poll_params, faultT, postedT, resultT >>
    /\ UNCHANGED notTweet

\* self._upload_media(...) raises; the handler of create_tweet catches it.
UploadRaises ==
    /\ pcT = "entry"
    /\ image_content_str /\ tweetConfig.media_upload_enabled
    /\ faultT' = "upload"
    /\ resultT' = ExceptHandler("upload error")
    /\ pcT' = "done"
    /\ UNCHANGED << poll_options, poll_duration, image_content_str,
                    tweetConfig, media_ids, poll_params, postedT >>
    /\ UNCHANGED notTweet

\* The poll checks: each raise ValueError is inside the try.
PollCheck ==
    /\ pcT = "poll"
    /\ IF poll_options > 0
       THEN IF OptionsOutOfBounds(poll_options, tweetConfig)
            THEN /\ resultT' = ExceptHandler("Poll must have 2-N options")
                 /\ pcT' = "done"
                 /\ UNCHANGED poll_params
            ELSE IF DurationInvalid(poll_duration, tweetConfig)
                 THEN /\ resultT' =
                           ExceptHandler("Poll duration must be 5-N minutes")
                      /\ pcT' = "done"
                      /\ UNCHANGED poll_params
                 ELSE /\ poll_params' = TRUE
                      /\ pcT' = "post"
                      /\ UNCHANGED resultT
       ELSE /\ pcT' = "post"
            /\ UNCHANGED << poll_params, resultT >>
    /\ UNCHANGED << poll_options, poll_duration, image_content_str,
                    tweetConfig, media_ids, faultT, postedT >>
    /\ UNCHANGED notTweet

\* self.client.create_tweet(...) returns.
PostOk ==
    /\ pcT = "post"
    /\ postedT' = TRUE
    /\ resultT' = [kind |-> "returned", text |-> "tweet posted"]
    /\ pcT' = "done"
    /\ UNCHANGED << poll_options, poll_duration, image_content_str,
                    tweetConfig, media_ids, poll_params, faultT >>
    /\ UNCHANGED notTweet

\* self.client.create_tweet(...) raises; the handler catches it.
PostRaises ==
    /\ pcT = "post"
    /\ faultT' = "api"
    /\ resultT' = ExceptHandler("api error")
    /\ pcT' = "done"
    /\ UNCHANGED << poll_options, poll_duration, image_content_str,
                    tweetConfig, media_ids, poll_params, postedT >>
    /\ UNCHANGED notTweet

NextTweet ==
    \/ SkipUpload
    \/ UploadOk
    \/ UploadRaises
    \/ PollCheck
    \/ PostOk
    \/ PostRaises

SpecTweet == InitTweet /\ [][NextTweet]_vars

(***************************************************************************)
(* _TavilyService.search: the tool is created and invoked inside one try   *)
(* whose handler returns a one-item list titled "Search Error".            *)
(***************************************************************************)
\* What tool.ainvoke can return: nothing, the string "error", another
\* string, a list of n results, or a value whose items lack title/url/content.
RawResults ==
    {[kind |-> k, n |-> 0] : k \in {"empty", "error", "string", "malformed"}}
      \cup {[kind |-> "list", n |-> k] : k \in 1..MaxTavilyResults}

\* max_results or self.config.max_results: None and 0 are falsy.
EffectiveToolMax(max_results, configured) ==
    IF max_results = NoneInt \/ max_results = 0 THEN configured
    ELSE max_results

\* except Exception as e: return [TavilySearchResult(title="Search Error"..)]
SearchErrorList == [kind |-> "returned", title |-> "Search Error", n |-> 1]

\* The list search builds from what ainvoke returned (no exception raised).
ResultsFrom(raw) ==
    CASE raw.kind = "empty" ->
           [kind |-> "returned", title |-> "No Results", n |-> 1]
      [] raw.kind = "error" -> SearchErrorList
      [] raw.kind = "string" ->
           [kind |-> "returned", title |-> "Search Result", n |-> 1]
      [] raw.kind = "malformed" -> SearchErrorList
      [] OTHER -> [kind |-> "returned", title |-> "result", n |-> raw.n]

InitTavily ==
    /\ SearchIdle
    /\ DispIdle
    /\ RegIdle
    /\ ItemsIdle
    /\ ServerIdle
    /\ ValIdle
    /\ TweetIdle
    /\ SendIdle
    /\ StoreIdle
    /\ ExtIdle
    /\ pcV = "entry"
    /\ queryV \in {<< >>, << "q" >>}
    /\ maxResultsV \in {NoneInt} \cup 0..MaxTavilyResults
    /\ toolMax = 0
    /\ rawV = [kind |-> "none", n |-> 0]
    /\ faultV = "none"
    /\ resultV = [kind |-> "none", title |-> "", n |-> 0]

\* if not query: raise ValueError (before the try).
TavilyEmptyQuery ==
    /\ pcV = "entry"
    /\ queryV = << >>
    /\ resultV' = [kind |-> "raised", title |-> "ValueError", n |-> 0]
    /\ pcV' = "done"
    /\ UNCHANGED << queryV, maxResultsV, toolMax, rawV, faultV >>
    /\ UNCHANGED notTavily

\* self._create_tavily_tool(max_results=max_results) returns.
CreateTool ==
    /\ pcV = "entry"
    /\ queryV # << >>
    /\ \E configured \in 1..MaxTavilyResults :
         toolMax' = EffectiveToolMax(maxResultsV, configured)
    /\ pcV' = "tool"
    /\ UNCHANGED << queryV, maxResultsV, rawV, faultV, resultV >>
    /\ UNCHANGED notTavily

\* _create_tavily_tool raises TavilyConfigError; the handler of search
\* catches it.
CreateToolRaises ==
    /\ pcV = "entry"
    /\ queryV # << >>
    /\ faultV' = "tool"
    /\ resultV' = SearchErrorList
    /\ pcV' = "done"
    /\ UNCHANGED << queryV, maxResultsV, toolMax, rawV >>
    /\ UNCHANGED notTavily

\* results = await tool.ainvoke(query) returns.
Ainvoke ==
    /\ pcV = "tool"
    /\ \E raw \in RawResults :
         /\ raw.kind = "list" => raw.n <= toolMax
         /\ rawV' = raw
    /\ pcV' = "got"
    /\ UNCHANGED << queryV, maxResultsV, toolMax, faultV, resultV >>
    /\ UNCHANGED notTavily

\* tool.ainvoke raises (API failure); the handler catches it.
AinvokeRaises ==
    /\ pcV = "tool"
    /\ faultV' = "api"
    /\ resultV' = SearchErrorList
    /\ pcV' = "done"
    /\ UNCHANGED << queryV, maxResultsV, toolMax, rawV >>
    /\ UNCHANGED notTavily

\* The branches on results, the comprehension over the items (an item
\* without title raises AttributeError, caught by the handler), the return.
ProcessResults ==
    /\ pcV = "got"
    /\ resultV' = ResultsFrom(rawV)
    /\ faultV' = CASE rawV.kind = "malformed" -> "format"
                   [] rawV.kind = "error" -> "api"
                   [] OTHER -> faultV
    /\ pcV' = "done"
    /\ UNCHANGED << queryV, maxResultsV, toolMax, rawV >>
    /\ UNCHANGED notTavily

NextTavily ==
    \/ TavilyEmptyQuery
    \/ CreateTool
    \/ CreateToolRaises
    \/ Ainvoke
    \/ AinvokeRaises
    \/ ProcessResults

SpecTavily == InitTavily /\ [][NextTavily]_vars

(***************************************************************************)
(* send_msg_to_telegram: the configuration checks, the truncation, the     *)
(* request, one retry without parse mode, and the handlers.                *)
(***************************************************************************)
MAX_MESSAGE_LENGTH == 4000
\* len("... [message truncated]")
TruncationNoteLen == 23

\* HTTP statuses an answer can have.
Statuses == {200, 400, 403, 500}

\* What the body of a 400 answer can be: a description naming a parse
\* error, another description, a null description, or no JSON at all.
Descriptions ==
    {"parse error", "can't parse entities", "chat not found", "null",
     "no json"}

\* The answers requests.post can return.
Responses ==
    {[status |-> 400, desc |-> x] : x \in Descriptions}
      \cup {[status |-> c, desc |-> "none"] : c \in Statuses \ {400}}

\* The exceptions requests.post can raise.
RequestFaults == {"ConnectionError", "Timeout", "RequestException",
                  "Exception"}

\* text[:MAX_MESSAGE_LENGTH] + "... [message truncated]" for a long text.
PayloadLength(n) ==
    IF n > MAX_MESSAGE_LENGTH THEN MAX_MESSAGE_LENGTH + TruncationNoteLen
    ELSE n

RetriesOnAny400(desc) == TRUE
\* 'parse error' in error_desc or 'can\'t parse entities' in error_desc
IsParseError(desc) == desc \in {"parse error", "can't parse entities"}

HandlerReraisesHttpError(exc) ==
    IF exc = "HTTPError" THEN [kind |-> "raised", value |-> "TelegramApiError"]
    ELSE [kind |-> "returned", value |-> "False"]
\* Every except branch of the try returns False.
HandlerResult(exc) == [kind |-> "returned", value |-> "False"]

InitSend ==
    /\ SearchIdle
    /\ DispIdle
    /\ RegIdle
    /\ ItemsIdle
    /\ ServerIdle
    /\ ValIdle
    /\ TweetIdle
    /\ TavIdle
    /\ StoreIdle
    /\ ExtIdle
    /\ pcM = "entry"
    /\ cfgToken \in BOOLEAN
    /\ cfgChannel \in BOOLEAN
    /\ textLen \in {1, MAX_MESSAGE_LENGTH, MAX_MESSAGE_LENGTH + 1}
    /\ payloadLen = 0
    /\ parseMode = "HTML"
    /\ posts = << >>
    /\ resultM = [kind |-> "none", value |-> "none"]

\* if not config.token / if not config.channel: raise TelegramClientError.
SendMissingConfig ==
    /\ pcM = "entry"
    /\ ~cfgToken \/ ~cfgChannel
    /\ resultM' = [kind |-> "raised", value |-> "TelegramClientError"]
    /\ pcM' = "done"
    /\ UNCHANGED << cfgToken, cfgChannel, textLen, payloadLen, parseMode,
                    posts >>
    /\ UNCHANGED notSend

\* The truncation and the payload.
PreparePayload ==
    /\ pcM = "entry"
    /\ cfgToken /\ cfgChannel
    /\ payloadLen' = PayloadLength(textLen)
    /\ parseMode' = "HTML"
    /\ pcM' = "post"
    /\ UNCHANGED << cfgToken, cfgChannel, textLen, posts, resultM >>
    /\ UNCHANGED notSend

\* requests.post(...) returns an answer.
Request ==
    /\ pcM = "post"
    /\ \E r \in Responses :
         posts' = Append(posts, [parse_mode |-> parseMode,
                                 status |-> r.status, desc |-> r.desc])
    /\ pcM' = "answered"
    /\ UNCHANGED << cfgToken, cfgChannel, textLen, payloadLen, parseMode,
                    resultM >>
    /\ UNCHANGED notSend

\* requests.post(...) raises; a handler returns False.
RequestRaises ==
    /\ pcM = "post"
    /\ \E e \in RequestFaults :
         /\ posts' = Append(posts, [parse_mode |-> parseMode,
                                    status |-> 0, desc |-> e])
         /\ resultM' = HandlerResult(e)
    /\ pcM' = "done"
    /\ UNCHANGED << cfgToken, cfgChannel, textLen, payloadLen, parseMode >>
    /\ UNCHANGED notSend

\* After the first answer: the check for 400 (a body without JSON or with a
\* null description raises inside the try), the retry or the return of
\* False.  Otherwise, and after the second answer: raise_for_status.
HandleAnswer ==
    /\ pcM = "answered"
    /\ LET r == posts[Len(posts)]
       IN IF Len(posts) = 1 /\ r.status = 400
          THEN IF r.desc = "no json"
               THEN /\ resultM' = HandlerResult("RequestException")
                    /\ pcM' = "done"
                    /\ UNCHANGED parseMode
               ELSE IF r.desc = "null"
               THEN /\ resultM' = HandlerResult("Exception")
                    /\ pcM' = "done"
                    /\ UNCHANGED parseMode
               ELSE IF IsParseError(r.desc)
               THEN /\ parseMode' = ""
                    /\ pcM' = "post"
                    /\ UNCHANGED resultM
               ELSE /\ resultM' = [kind |-> "returned", value |-> "False"]
                    /\ pcM' = "done"
                    /\ UNCHANGED parseMode
          ELSE /\ resultM' = IF r.status >= 400 THEN HandlerResult("HTTPError")
                             ELSE [kind |-> "returned", value |-> "True"]
               /\ pcM' = "done"
               /\ UNCHANGED parseMode
    /\ UNCHANGED << cfgToken, cfgChannel, textLen, payloadLen, posts >>
    /\ UNCHANGED notSend

NextSend ==
    \/ SendMissingConfig
    \/ PreparePayload
    \/ Request
    \/ RequestRaises
    \/ HandleAnswer

SpecSend == InitSend /\ [][NextSend]_vars

(***************************************************************************)
(* QdrantConnector.store: concurrent calls on one collection; each await   *)
(* is a point where another call can run.                                  *)
(***************************************************************************)
InitStore ==
    /\ SearchIdle
    /\ DispIdle
    /\ RegIdle
    /\ ItemsIdle
    /\ ServerIdle
    /\ ValIdle
    /\ TweetIdle
    /\ TavIdle
    /\ SendIdle
    /\ ExtIdle
    /\ pcQ = [c \in 1..NStores |-> "start"]
    /\ collection \in BOOLEAN
    /\ createCalls = 0
    /\ upserted = {}

\* collection_exists = await self._client.collection_exists(...); the answer
\* decides whether this call will create the collection.
CollectionExists(c) ==
    /\ pcQ[c] = "start"
    /\ pcQ' = [pcQ EXCEPT ![c] = IF collection THEN "embed" ELSE "create"]
    /\ UNCHANGED << collection, createCalls, upserted >>
    /\ UNCHANGED notStore

\* await self._client.create_collection(...): the server creates the
\* collection, or refuses when it exists already and store raises
\* QdrantAPIError.
CreateCollection(c) ==
    /\ pcQ[c] = "create"
    /\ createCalls' = createCalls + 1
    /\ collection' = TRUE
    /\ pcQ' = [pcQ EXCEPT ![c] = IF collection THEN "failed" ELSE "embed"]
    /\ UNCHANGED upserted
    /\ UNCHANGED notStore

\* await self._embedding_provider.embed_documents(...) returns.
EmbedDocuments(c) ==
    /\ pcQ[c] = "embed"
    /\ pcQ' = [pcQ EXCEPT ![c] = "upsert"]
    /\ UNCHANGED << collection, createCalls, upserted >>
    /\ UNCHANGED notStore

\* The embedding raises: store raises QdrantAPIError.
EmbedFails(c) ==
    /\ pcQ[c] = "embed"
    /\ pcQ' = [pcQ EXCEPT ![c] = "failed"]
    /\ UNCHANGED << collection, createCalls, upserted >>
    /\ UNCHANGED notStore

\* await self._client.upsert(...).
Upsert(c) ==
    /\ pcQ[c] = "upsert"
    /\ upserted' = upserted \cup {c}
    /\ pcQ' = [pcQ EXCEPT ![c] = "done"]
    /\ UNCHANGED << collection, createCalls >>
    /\ UNCHANGED notStore

NextStore ==
    \E c \in 1..NStores :
        \/ CollectionExists(c)
        \/ CreateCollection(c)
        \/ EmbedDocuments(c)
        \/ EmbedFails(c)
        \/ Upsert(c)

SpecStore == InitStore /\ [][NextStore]_vars

(***************************************************************************)
(* One extraction: _async_download_and_extract on a PDF whose download and *)
(* parsing succeed, with the limit search() passes to it.                  *)
(***************************************************************************)
\* The texts parse_pdf can return: any length up to MaxTextLen, and a text
\* that begins with "[".
ExtractTexts == {Rep(n) : n \in 0..MaxTextLen} \cup {<< "[", "a" >>}

\* The values a limit can have.
Limits == {NoneInt} \cup 0..MaxLimit

InitExtract ==
    /\ SearchIdle
    /\ DispIdle
    /\ RegIdle
    /\ ItemsIdle
    /\ ServerIdle
    /\ ValIdle
    /\ TweetIdle
    /\ TavIdle
    /\ SendIdle
    /\ StoreIdle
    /\ exText \in ExtractTexts
    /\ exOverride \in Limits
    /\ exDefault \in Limits
    /\ exResult = << "pending" >>

\* search() computes effective_max_text_length and the task returns the
\* text, cut or replaced.
ExtractOne ==
    /\ exResult = << "pending" >>
    /\ exResult' = DownloadAndExtract([fault |-> "none", text |-> exText],
                                      EffectiveLimit(exOverride, exDefault)).val
    /\ UNCHANGED << exText, exOverride, exDefault >>
    /\ UNCHANGED notExtract

NextExtract == ExtractOne

SpecExtract == InitExtract /\ [][NextExtract]_vars

(***************************************************************************)
(* Claims about ArxivService.search (checked under SpecSearch).            *)
(***************************************************************************)

\* The candidates search() has taken from the result stream: 1..fetched.
Consumed == 1..fetched

\* The operation of task i failed (download, parse or any other error).
OpFailed(i) == tasks[i].done /\ tasks[i].fault # "none"

\* The text a slot must show for the value its task ended with.
TextOf(res) ==
    IF res.kind = "str" THEN res.val
    ELSE << "[", "Error processing PDF" >> \o res.val

\* C2: the returned list has exactly one slot per spawned task, slot i
\* belongs to the i-th spawned task (candidates in the order they were taken
\* from the stream) and shows the outcome of that task's own operation,
\* whatever order the tasks completed in.
C2_OrderPreserved ==
    pcS = "returned" =>
        /\ Len(final_results_list) = Len(tasks)
        /\ \A i \in 1..Len(tasks) :
             /\ final_results_list[i].link = tasks[i].cand
             /\ final_results_list[i].full_text = TextOf(tasks[i].res)
        /\ \A i, j \in 1..Len(final_results_list) :
             i < j => final_results_list[i].link < final_results_list[j].link

\* Two tasks with different outcomes completed in reverse order of spawning.
C2_Witness ==
    /\ pcS = "returned"
    /\ Len(tasks) = 2
    /\ completionOrder = << 2, 1 >>
    /\ tasks[1].res # tasks[2].res

\* C3: a failed per-item operation never makes search() raise, and every
\* sibling whose operation succeeded still gets its own text in its own slot.
C3_FailureIsolation ==
    /\ (\E i \in 1..Len(tasks) : OpFailed(i)) => pcS # "raised"
    /\ pcS = "returned" =>
         \A i \in 1..Len(tasks) :
            /\ tasks[i].done
            /\ tasks[i].fault = "none" =>
                 /\ final_results_list[i].link = tasks[i].cand
                 /\ final_results_list[i].full_text = tasks[i].res.val

\* One operation let an exception escape, a sibling succeeded with plain text.
C3_Witness ==
    /\ pcS = "returned"
    /\ \E i, j \in 1..Len(tasks) :
         /\ tasks[i].fault = "Escaped"
         /\ tasks[j].fault = "none"
         /\ final_results_list[j].error = NoneStr

\* C4 (as claimed): search() stops consuming candidates only when N
\* operations have succeeded or the pool is exhausted, so a list returned
\* while the pool was not exhausted holds N successful results and no failed
\* slot.
C4_StopsAtNSuccesses ==
    (pcS = "returned" /\ ~exhausted) =>
        /\ Len(final_results_list) = EffectiveMaxResults
        /\ \A i \in 1..Len(final_results_list) :
             /\ ~OpFailed(i)
             /\ final_results_list[i].error = NoneStr

\* C5: a candidate whose operation failed keeps its slot, with the error
\* field set and full_text holding the error message; the list has one slot
\* per task, so N failing candidates give N failed slots.
C5_FailedSlotKept ==
    pcS = "returned" =>
        /\ Len(final_results_list) = Len(tasks)
        /\ \A i \in 1..Len(tasks) :
             OpFailed(i) =>
                /\ final_results_list[i].link = tasks[i].cand
                /\ final_results_list[i].error # NoneStr
                /\ final_results_list[i].full_text # << "Fetching..." >>
                /\ StartsWithBracket(final_results_list[i].full_text)
                /\ tasks[i].res.kind = "str" =>
                     /\ final_results_list[i].full_text = tasks[i].res.val
                     /\ final_results_list[i].error = tasks[i].res.val
                /\ tasks[i].res.kind = "exc" =>
                     final_results_list[i].error = tasks[i].res.val

\* N >= 2 requested, exactly N candidates, every operation failed.
C5_Witness ==
    /\ pcS = "returned"
    /\ EffectiveMaxResults >= 2
    /\ fetched = EffectiveMaxResults
    /\ Len(final_results_list) = EffectiveMaxResults
    /\ \A i \in 1..Len(tasks) :
         OpFailed(i) /\ final_results_list[i].error # NoneStr

\* C6: the list never has more entries than the per-call override if given,
\* otherwise the configured default; nor are more tasks ever spawned.
C6_AtMostN ==
    LET n == IF max_results_override # NoneInt
             THEN max_results_override ELSE default_max_results
    IN  /\ Len(final_results_list) <= n
        /\ Len(tasks) <= n

\* The override is smaller than the default and the list is full, while the
\* stream had handed out more candidates than that.
C6_Witness ==
    /\ pcS = "returned"
    /\ max_results_override # NoneInt
    /\ max_results_override < default_max_results
    /\ Len(final_results_list) = max_results_override
    /\ fetched > max_results_override

\* C7 (as claimed): every candidate taken from the stream occupies exactly
\* one slot of the returned list.
C7_NoCandidateDiscarded ==
    pcS = "returned" =>
        \A c \in Consumed :
            Cardinality({i \in 1..Len(final_results_list) :
                            final_results_list[i].link = c}) = 1

\* C8: when the stream ends early search() does not raise; it returns one
\* finished slot for each task it had spawned (possibly none).
C8_ExhaustedReturnsPartial ==
    exhausted =>
        /\ pcS \in {"gather", "returned"}
        /\ raisedS = ""
        /\ processed_count < EffectiveMaxResults
        /\ pcS = "returned" =>
             /\ Len(final_results_list) = processed_count
             /\ \A i \in 1..Len(final_results_list) :
                  /\ final_results_list[i].link = tasks[i].cand
                  /\ final_results_list[i].full_text # << "Fetching..." >>

\* The stream ended after one candidate although two were wanted.
C8_Witness ==
    /\ exhausted
    /\ pcS = "returned"
    /\ EffectiveMaxResults = 2
    /\ Len(final_results_list) = 1

\* C23: search with an empty query raises ValueError before the ArXiv API is
\* contacted, before the scratch directory exists and before any task is
\* spawned; the arxiv_search tool answers it with the input-validation text.
C23_EmptyQueryRaisesFirst ==
    /\ (query = << >> /\ pcS # "entry") =>
         /\ pcS = "raised"
         /\ raisedS = "ValueError"
         /\ fetched = 0
         /\ ~iterRaised
         /\ ~exhausted
         /\ tasks = << >>
         /\ processed_count = 0
         /\ final_results_list = << >>
    /\ HandlerText("arxiv", "ValueError")
         = << "Input validation failed", "ValueError" >>

C23_Witness ==
    /\ query = << >>
    /\ pcS = "raised"
    /\ raisedS = "ValueError"

\* C26: in a returned list the error field of a slot is set if and only if
\* the download/extract operation of that item failed; a text that was
\* extracted never gives an error-marked slot, whatever the text is.  (A
\* PDF from which no text could be extracted counts as a failed operation.)
C26_ErrorIffOperationFailed ==
    pcS = "returned" =>
      \A i \in 1..Len(final_results_list) :
        (final_results_list[i].error # NoneStr)
          <=> \/ OpFailed(i)
              \/ tasks[i].res.val
                   = << "[", "Could not extract text content from PDF" >>

\* C27 (checked under SpecSearchFair): every search() call terminates:
\* provided each per-item operation finishes, the loop over the candidates
\* ends even when fetching or preparing a candidate raises, and search()
\* then returns or raises.
C27_SearchTerminates == <>(pcS \in {"returned", "raised"})

\* A search that returned although the iterator raised and the preparation
\* of a candidate failed.
C27_Witness ==
    /\ pcS = "returned"
    /\ iterRaised
    /\ fetched > processed_count

(***************************************************************************)
(* Claims about the scratch directory, hanging operations and the slots    *)
(* (checked under SpecItems / SpecItemsFair).                              *)
(***************************************************************************)
Placeholder == << "Fetching..." >>

C13_HangDoesNotBlock ==
    (pcW = "gather" /\ \E i \in 1..Len(ops) :
                         ops[i].pc = "downloading" /\ ops[i].hung)
    ~> (pcW \in {"returned", "raised"})

\* C14: a slot changes only from its placeholder to its final content (so
\* at most once), a returned list has every slot filled, and an abandoned
\* search returns no list and has modified no slot.
C14_SlotsFilledOnce ==
    /\ [](/\ \A i \in 1..Len(slots) :
               /\ slots[i].writes <= 1
               /\ slots[i].writes = 0 <=> slots[i].info.full_text = Placeholder
          /\ pcW = "returned" =>
               /\ Len(returnedW) = Len(slots)
               /\ \A k \in 1..Len(returnedW) :
                    /\ returnedW[k] = slots[k].info
                    /\ returnedW[k].full_text # Placeholder
          /\ pcW = "raised" =>
               /\ returnedW = << >>
               /\ \A i \in 1..Len(slots) : slots[i].writes = 0)
    /\ [][\A i \in 1..Len(slots) :
            slots'[i] # slots[i] =>
              /\ slots[i].info.full_text = Placeholder
              /\ slots'[i].info.full_text # Placeholder]_vars

\* search() was abandoned in gather after one operation had finished and
\* while another was in flight.
C14_Witness ==
    /\ raisedW = "CancelledError"
    /\ \E i, j \in 1..Len(ops) :
         /\ ops[i].res = Cancelled
         /\ ops[j].pc = "done" /\ ops[j].res # Cancelled
         /\ slots[j].info.full_text = Placeholder

(***************************************************************************)
(* Claims about call_tool (checked under SpecDispatch).                    *)
(***************************************************************************)
Terminal == {"Succeeded", "Failed"}

\* C1: whatever the adapter, tool name and arguments (valid arguments whose
\* backend call fails, malformed arguments, arguments failing validation),
\* call_tool returns a non-empty list of text content blocks and no
\* exception leaves it.
C1_NeverCrash ==
    /\ outcomeD # "raised"
    /\ pcD \in Terminal =>
         /\ outcomeD = "returned"
         /\ Len(resultD) >= 1
         /\ \A i \in 1..Len(resultD) : resultD[i].type = "text"

\* C10: a call moves Received -> Validated -> Executing -> terminal in that
\* order, the backend is invoked (once) only after the arguments validated,
\* and a call whose arguments fail schema validation ends in a returned
\* validation-error result with no backend invocation.
C10_ValidateThenExecute ==
    /\ traceD \in { << "Received" >>,
                    << "Received", "Failed" >>,
                    << "Received", "Validated" >>,
                    << "Received", "Validated", "Executing" >>,
                    << "Received", "Validated", "Executing", "Succeeded" >>,
                    << "Received", "Validated", "Executing", "Failed" >> }
    /\ backendCalls <= 1
    /\ backendCalls = 1 => argsKind = "valid"
    /\ ( /\ pcD \in Terminal
         /\ argsKind = "invalid"
         /\ toolName \in ToolsOf(adapter)
         /\ cfgChecked )
       => /\ backendCalls = 0
          /\ outcomeD = "returned"
          /\ Len(resultD) = 1
          /\ resultD[1].text \in { << "Invalid arguments", "ValidationError" >>,
                                   << "Validation error", "ValidationError" >> }

\* C11: a call with a tool name the server does not register returns exactly
\* one text block containing the word "Unknown", without raising, without
\* validating the arguments and without invoking the backend.
C11_UnknownToolShortCircuits ==
    (toolName \notin ToolsOf(adapter) /\ pcD \in Terminal)
    => /\ outcomeD = "returned"
       /\ Len(resultD) = 1
       /\ resultD[1].type = "text"
       /\ \E i \in 1..Len(resultD[1].text) : resultD[1].text[i] = "Unknown"
       /\ backendCalls = 0
       /\ \A i \in 1..Len(traceD) : traceD[i] # "Validated"

\* The response texts call_tool can produce when the backend operation of
\* the tool ends for cause c.
ResultTextsOf(a, tool, c) ==
    { IF v \in ReturnedValues
      THEN IF AfterReturn(a, tool, v).raises
           THEN HandlerText(a, AfterReturn(a, tool, v).exc)
           ELSE AfterReturn(a, tool, v).text
      ELSE HandlerText(a, v) :
      v \in BackendFates(a, tool) \cap OutcomesOf(a, tool, c) }

\* Exceptions no except clause of a call_tool names.
UnanticipatedExceptions == {"Exception", "TypeError", "AttributeError"}

\* C15: a failed call is reported by its cause: the text returned for an
\* error signalled by the backing service is never a text an internal error
\* yields, and the other way round.
C15_ClassifiedByCause ==
    (pcD \in Terminal /\ outcomeD = "returned")
    => /\ causeD = "upstream" =>
            resultD[1].text \notin ResultTextsOf(adapter, toolName, "internal")
       /\ causeD = "internal" =>
            resultD[1].text \notin ResultTextsOf(adapter, toolName, "upstream")

\* C16: the text returned when the catch-all handler answers does not depend
\* on the exception: any other unanticipated exception yields the same text.
C16_GenericInternalText ==
    (pcD \in Terminal /\ outcomeD = "returned" /\ branchD = "Exception")
    => \A e \in UnanticipatedExceptions :
         HandlerText(adapter, e) = resultD[1].text

(***************************************************************************)
(* Claims about a server from its start (checked under SpecServer).        *)
(***************************************************************************)
\* C17: all servers apply one discipline when the construction of the
\* service or the loading of the configuration fails: what this server did
\* on its failure (abort, or keep serving) is what every server does.
C17_OneStartupDiscipline ==
    startFailed =>
      \A a \in Adapters :
        StartupDiscipline(a) = IF srvState = "aborted" THEN "abort"
                               ELSE "degraded"

\* C19: the schema list_tools gives for a tool is the schema of the model
\* call_tool builds for that tool, so arguments that satisfy the advertised
\* schema pass validation.
C19_AdvertisedSchemaIsValidated ==
    verdict \in {"accepted", "rejected"} =>
      \A k \in 1..Len(ListedTools(srv)) :
        ListedTools(srv)[k].name = reqTool =>
          /\ ListedTools(srv)[k].schema = RequestModelOf(reqTool)
          /\ Accepts(ListedTools(srv)[k].schema, reqArgs)
               => verdict = "accepted"

\* C24: in the Telegram server, while the configuration fails to load,
\* list_tools returns an empty list and call_tool answers the
\* configuration-error text without executing the tool; loading is attempted
\* again on each request, and a configuration that has loaded is never
\* loaded again.
C24_LazyConfigRetried ==
    /\ [](srv = "telegram" =>
            /\ cfgLoads <= 1
            /\ svcReady <=> cfgLoads = 1)
    /\ [][(srv = "telegram" /\ nRequests' = nRequests + 1) =>
            IF svcReady
            THEN /\ svcReady'
                 /\ cfgAttempts' = cfgAttempts
                 /\ cfgLoads' = cfgLoads
            ELSE /\ cfgAttempts' = cfgAttempts + 1
                 /\ ~svcReady' =>
                      /\ executed' = executed
                      /\ \/ listed' = << >> /\ verdict' = verdict
                         \/ verdict' = "config_error" /\ listed' = listed]_vars

C24_Witness ==
    /\ srv = "telegram"
    /\ svcReady
    /\ nRequests = 2
    /\ cfgAttempts = 2
    /\ cfgLoads = 1
    /\ verdict = "accepted"

(***************************************************************************)
(* Claims about the bounded field (checked under SpecValidation).          *)
(***************************************************************************)
\* C18: the bounds of max_results are inclusive: 0 and 51 are rejected, 1
\* and 50 accepted; a request passes iff the field is absent, null or within
\* 1..50, and the configured default_max_results has the same bounds.
C18_InclusiveBounds ==
    vVerdict # "pending" =>
      LET inRange == vInput.kind = "int" /\ 1 <= vInput.n /\ vInput.n <= 50
      IN /\ vModel = "ArxivSearchRequest" =>
              (vVerdict = "accepted"
                 <=> (vInput.kind \in {"absent", "null"} \/ inRange))
         /\ vModel = "ArxivConfig" =>
              (vVerdict = "accepted" <=> (vInput.kind = "absent" \/ inRange))

C18_Witness ==
    /\ vModel = "ArxivSearchRequest"
    /\ vInput = [kind |-> "int", n |-> 50]
    /\ vVerdict = "accepted"
    /\ vValue = 50

(***************************************************************************)
(* Claims about create_tweet (checked under SpecTweet).                    *)
(***************************************************************************)
\* C20: create_tweet signals failure by raising: a poll with fewer than 2 or
\* more than poll_max_options options, or a duration outside
\* 5..poll_max_duration, raises ValueError; an error of the upload or of the
\* API propagates; a string is returned only when the tweet was created, and
\* it is "tweet posted".
C20_FailureRaises ==
    pcT = "done" =>
      LET pollBad ==
            /\ poll_options > 0
            /\ \/ poll_options < 2
               \/ poll_options > tweetConfig.poll_max_options
               \/ poll_duration = NoneInt
               \/ poll_duration < 5
               \/ poll_duration > tweetConfig.poll_max_duration
      IN /\ resultT.kind = "returned"
              => (postedT /\ resultT.text = "tweet posted")
         /\ faultT # "none" => resultT.kind = "raised"
         /\ (faultT # "upload" /\ pollBad) => resultT.kind = "raised"

(***************************************************************************)
(* Claims about _TavilyService.search (checked under SpecTavily).          *)
(***************************************************************************)
\* C21: search raises TavilyApiError when the Tavily API call fails and
\* TavilyServiceError for general client issues; it returns a list only
\* when the search succeeded.
C21_TavilyFailureRaises ==
    pcV = "done" =>
      /\ faultV = "api" =>
           (resultV.kind = "raised" /\ resultV.title = "TavilyApiError")
      /\ faultV \in {"tool", "format"} =>
           (resultV.kind = "raised" /\ resultV.title = "TavilyServiceError")
      /\ resultV.kind = "returned" => faultV = "none"

(***************************************************************************)
(* Claims about send_msg_to_telegram (checked under SpecSend).             *)
(***************************************************************************)
\* C22: send_msg_to_telegram returns True exactly when the message was sent
\* (the last request was answered without an error status), False
\* otherwise; it raises only TelegramClientError, and only for a missing
\* token or channel.
C22_TrueIffSent ==
    pcM = "done" =>
      LET sent == /\ posts # << >>
                  /\ posts[Len(posts)].status \in {200}
      IN /\ resultM.kind \in {"returned", "raised"}
         /\ resultM.kind = "raised" <=> (~cfgToken \/ ~cfgChannel)
         /\ resultM.kind = "raised" =>
              (resultM.value = "TelegramClientError" /\ posts = << >>)
         /\ resultM.kind = "returned" =>
              resultM.value = (IF sent THEN "True" ELSE "False")

C22_Witness ==
    /\ pcM = "done"
    /\ Len(posts) = 1
    /\ posts[1].status = 500
    /\ resultM = [kind |-> "returned", value |-> "False"]

\* C30: at most two requests are issued per call; the second one only after
\* the first was answered 400 with a parse-error description, and without
\* the HTML parse mode; any other 400 answer returns False without a retry.
C30_AtMostOneRetry ==
    /\ Len(posts) <= 2
    /\ posts # << >> => posts[1].parse_mode = "HTML"
    /\ Len(posts) = 2 =>
         /\ posts[1].status = 400
         /\ posts[1].desc \in {"parse error", "can't parse entities"}
         /\ posts[2].parse_mode # "HTML"
    /\ (/\ posts # << >>
        /\ posts[1].status = 400
        /\ posts[1].desc \notin {"parse error", "can't parse entities"}
        /\ pcM \notin {"answered"})
         => (/\ Len(posts) = 1
             /\ pcM = "done"
             /\ resultM = [kind |-> "returned", value |-> "False"])

C30_Witness ==
    /\ pcM = "done"
    /\ Len(posts) = 2
    /\ posts[2].status = 200
    /\ resultM = [kind |-> "returned", value |-> "True"]

(***************************************************************************)
(* Claims about QdrantConnector.store (checked under SpecStore).           *)
(***************************************************************************)
\* C29: under any interleaving of concurrent store calls on one collection
\* that does not exist yet, create_collection is invoked at most once, and
\* an upsert is done only when the collection exists.
C29_CreateAtMostOnce ==
    /\ createCalls <= 1
    /\ upserted # {} => collection

(***************************************************************************)
(* Claims about one extraction (checked under SpecExtract).                *)
(***************************************************************************)
\* The limit the claim names: the per-call override if given, otherwise the
\* configured default.
ClaimedLimit == IF exOverride # NoneInt THEN exOverride ELSE exDefault

\* C25, as stated: with text limit L, an extracted text of length <= L is
\* returned unchanged, a longer one is cut to its first L characters
\* followed by the truncation note, and with no limit the text is never
\* cut; L is the override if given, otherwise the configured default.
C25_TruncatesAtLimit ==
    exResult # << "pending" >> =>
      IF ClaimedLimit = NoneInt \/ Len(exText) <= ClaimedLimit
      THEN exResult = exText
      ELSE /\ Len(exResult) = ClaimedLimit + 1
           /\ SubSeq(exResult, 1, ClaimedLimit) = SubSeq(exText, 1, ClaimedLimit)
           /\ exResult[ClaimedLimit + 1] = "... (truncated)"

\* C25, amended: the statement holds for every non-empty extracted text; an
\* empty extraction is replaced by the text "[Could not extract text content
\* from PDF]", whatever the limit.
C25_TruncatesNonEmptyText ==
    exResult # << "pending" >> =>
      IF exText = << >>
      THEN exResult = << "[", "Could not extract text content from PDF" >>
      ELSE IF ClaimedLimit = NoneInt \/ Len(exText) <= ClaimedLimit
      THEN exResult = exText
      ELSE /\ Len(exResult) = ClaimedLimit + 1
           /\ SubSeq(exResult, 1, ClaimedLimit) = SubSeq(exText, 1, ClaimedLimit)
           /\ exResult[ClaimedLimit + 1] = "... (truncated)"

C25_Witness ==
    /\ exOverride = 2
    /\ exDefault = 3
    /\ Len(exText) = 3
    /\ exResult = << "a", "a", "... (truncated)" >>

(***************************************************************************)
(* Claims about the service factories (checked under SpecRegistry).        *)
(***************************************************************************)
\* C9: under any interleaving of concurrent first-time calls to a factory
\* the service is constructed at most once, a caller that got a handle got
\* the one constructed instance, and every later call returns that same
\* instance.
C9_ConstructedOnce ==
    /\ nConstructed <= 1
    /\ Cardinality(handed) <= 1
    /\ handed # {} => nConstructed = 1 /\ handed = {cache}

\* C28: a failed construction leaves the singleton slot empty: the factory
\* raises, nothing is cached and a later call constructs again; the slot is
\* filled only by a successful construction, and once filled it is never
\* cleared or replaced.
C28_FailureLeavesSlotEmpty ==
    [][/\ cache # 0 => cache' = cache
       /\ (cache = 0 /\ cache' # 0) =>
            \E c \in Callers : own'[c] = cache' /\ pcR'[c] = "done"
       /\ \A c \in Callers :
            /\ (pcR[c] # "failed" /\ pcR'[c] = "failed") =>
                 (cache' = cache /\ nConstructed' = nConstructed)
            /\ (pcR[c] = "idle" /\ cache = 0 /\ pcR'[c] = "done") =>
                 nConstructed' = nConstructed + 1]_vars

\* A caller whose first call failed is constructing again.
C28_Witness ==
    \E c \in Callers :
        /\ calls[c] = 2
        /\ pcR[c] = "built"
        /\ cache = 0
        /\ nConstructed = 1

====
